---- MODULE Spec2Model ----
(***************************************************************************)
(* Model of the SMART scheduling aggregator: the resource store            *)
(* (server/storage.ts, MemStorage), the publisher sync cycle and the       *)
(* Optum enrichment pass (server/routes.ts), the two search paths          *)
(* (SmartSchedulerAgent.searchProviders and POST /api/search) and the      *)
(* bulk republish endpoints (/fhir/$bulk-publish, /fhir/data/*.ndjson).    *)
(*                                                                         *)
(* Conventions                                                             *)
(*  - a JavaScript value that may be missing is an option record:          *)
(*    Undefined, Null or Val(x);                                           *)
(*  - a string that the code lower-cases or searches with includes() is a  *)
(*    sequence of character codes: 0 is the space, 1..26 are a..z,         *)
(*    101..126 are A..Z, 30..39 the digits, 40 and 41 '.' and '-'; other   *)
(*    strings (status codes, extension URLs, NPIs) are TLA+ strings;       *)
(*  - resource ids and publisher base URLs are positive integers;          *)
(*  - a FHIR reference "Kind/id" is the record [kind, id];                 *)
(*  - a Map is the sequence of its values in insertion order.              *)
(***************************************************************************)
EXTENDS Integers, Sequences, FiniteSets, TLC

\* ------------------------------------------------------------------ bounds
NumPublishers == 3   \* configured publishers
MaxCycles == 2       \* sync cycles in one run
MaxFileFaults == 1   \* NDJSON files that fail to fetch or parse in one cycle

\* ------------------------------------------------------- JavaScript values
Undefined == [k |-> "undefined"]
Null == [k |-> "null"]
Val(x) == [k |-> "value", v |-> x]
IsVal(o) == o.k = "value"

\* `x || null` for objects and arrays (always truthy when present)
OrNull(o) == IF IsVal(o) THEN o ELSE Null
\* `x || null` for booleans: false is falsy
OrNullBool(o) == IF IsVal(o) /\ o.v THEN o ELSE Null
\* `x || null` for strings: the empty string is falsy
OrNullStr(o) == IF IsVal(o) /\ o.v # <<>> THEN o ELSE Null
\* `x ?? true`
OrTrue(o) == IF IsVal(o) THEN o ELSE Val(TRUE)
\* `x || []`
OrEmpty(o) == IF IsVal(o) THEN o ELSE Val(<<>>)
\* `a || b` for objects, arrays and non-empty strings
OrElse(a, b) == IF IsVal(a) THEN a ELSE b
\* `a || b` for the NPI, a plain string
OrElseText(a, b) == IF IsVal(a) /\ a.v # "" THEN a ELSE b

\* ------------------------------------------------------------------ strings
ToLowerChar(c) == IF c > 100 THEN c - 100 ELSE c
ToLowerCase(s) == [i \in 1..Len(s) |-> ToLowerChar(s[i])]
Includes(s, t) == \E i \in 0..(Len(s) - Len(t)) : SubSeq(s, i + 1, i + Len(t)) = t

\* optional chaining: o?.toLowerCase().includes(t)
OptLowerIncludes(o, t) == IsVal(o) /\ Includes(ToLowerCase(o.v), t)

RECURSIVE SplitFrom(_, _, _)
SplitFrom(s, i, cur) ==
  IF i > Len(s) THEN <<cur>>
  ELSE IF s[i] = 0 THEN <<cur>> \o SplitFrom(s, i + 1, <<>>)
  ELSE SplitFrom(s, i + 1, Append(cur, s[i]))
\* s.split(' ')
Split(s) == SplitFrom(s, 1, <<>>)

RECURSIVE Join(_)
\* parts.join(' ')
Join(parts) ==
  IF parts = <<>> THEN <<>>
  ELSE IF Len(parts) = 1 THEN parts[1]
  ELSE parts[1] \o <<0>> \o Join(Tail(parts))

\* ------------------------------------------------------- sequence helpers
Range(s) == {s[i] : i \in 1..Len(s)}
Ids(coll) == {coll[i].id : i \in 1..Len(coll)}
IndexOf(coll, id) == CHOOSE i \in 1..Len(coll) : coll[i].id = id
Lookup(coll, id) == coll[IndexOf(coll, id)]
Some(s, P(_)) == \E i \in 1..Len(s) : P(s[i])
\* the least index of a set of indices, 0 when there is none: what
\* array.find() and a loop with `break` stop at
FirstIndex(S) == IF S = {} THEN 0 ELSE CHOOSE i \in S : \A j \in S : i <= j

\* ---------------------------------------------------------------- references
Ref(kind, id) == [kind |-> kind, id |-> id]
\* ref.replace(kind + '/', ''): the bare id when the prefix was there or the
\* reference had no prefix at all; otherwise the reference is left as it was
\* and equals no id (ids are positive, 0 stands for "not an id")
StripPrefix(ref, kind) == IF ref.kind \in {kind, ""} THEN ref.id ELSE 0
\* ref.startsWith(kind + '/')
StartsWith(ref, kind) == ref.kind = kind

\* a property of a JavaScript object that may be absent
G(r, f) == IF f \in DOMAIN r THEN r[f] ELSE Undefined

\* ------------------------------------------------------------ the store
VARIABLES
  store,        \* MemStorage: the four Maps, each in insertion order
  clock,        \* what new Date() returns: the number of the sync cycle
  pc,           \* where syncFHIRData is: idle, source, file, enrich, done
  trigger,      \* what started the cycle: startup, cron or manual
  srcIdx,       \* index into getBulkPublishSources() of the current publisher
  outIdx,       \* index into manifest.output of the current file
  successCount, \* syncFHIRData's successCount
  failCount,    \* syncFHIRData's failCount
  attempted,    \* publishers whose manifest was requested this cycle, in order
  synced,       \* <<publisher, type>> of every file upserted this cycle
  existingRoles,\* enrichWithOptumData's snapshot of the roles
  enrichment,   \* what the enrichment pass of this cycle did
  raised,       \* an exception left syncFHIRData
  response,     \* HTTP status POST /api/sync answered with (0: none yet)
  fileFaults,   \* files of this cycle that failed to fetch or parse
  reply,        \* the reply to the last read request (search, export, manifest)
  sources,      \* getBulkPublishSources(): the configured publishers, in order
  backend,      \* the storage chosen by USE_DB_STORAGE: "mem" or "db"
  applied,      \* the batch the last bulk upsert applied, how many times in a
                \* row it has now been applied, and what the store looked like
                \* after the first of these
  before,       \* the store as it was when the current sync cycle started
  contexts,     \* SmartSchedulerAgent.contexts: the Map of conversation contexts
  inflight,     \* the calls of syncFHIRData that have not returned yet, when
                \* triggers are let in while a cycle runs
  writeOrder,   \* the calls that made the last three bulk upserts, oldest
                \* first (each named by the tick at which it was started)
  optumResponse \* what the directory answered the last enrichment pass with
                \* (undefined: no pass yet, or the request failed)

vars == <<store, clock, pc, trigger, srcIdx, outIdx, successCount, failCount,
          attempted, synced, existingRoles, enrichment, raised, response,
          fileFaults, reply, sources, backend, applied, before, contexts,
          inflight, writeOrder, optumResponse>>
syncVars == <<pc, trigger, srcIdx, outIdx, successCount, failCount, attempted,
              synced, existingRoles, enrichment, raised, response, fileFaults>>

ResourceTypes == <<"Location", "PractitionerRole", "Schedule", "Slot">>
EmptyStore == [Location |-> <<>>, PractitionerRole |-> <<>>,
               Schedule |-> <<>>, Slot |-> <<>>]

\* a store that keeps the first record it saw for a key
MapKeepFirst(coll, rec) == IF rec.id \in Ids(coll) THEN coll ELSE Append(coll, rec)
\* a store without keys: Array.push
MapPush(coll, rec) == Append(coll, rec)

\* Map.set(rec.id, rec): an existing key keeps its place in the iteration
\* order, a new key goes last
MapSet(coll, rec) ==
  IF rec.id \in Ids(coll)
  THEN [coll EXCEPT ![IndexOf(coll, rec.id)] = rec]
  ELSE Append(coll, rec)

\* the record bulkUpsertLocations stores for one InsertLocation
toLocation(ins, now) ==
  [id |-> ins.id,
   name |-> G(ins, "name"),
   telecom |-> G(ins, "telecom"),
   address |-> G(ins, "address"),
   updatedAt |-> Val(now),
   description |-> OrNullStr(G(ins, "description")),
   identifier |-> OrNull(G(ins, "identifier")),
   position |-> OrNull(G(ins, "position")),
   publisherUrl |-> OrNull(G(ins, "publisherUrl"))]

\* the record bulkUpsertPractitionerRoles stores for one InsertPractitionerRole
toPractitionerRole(ins, now) ==
  [id |-> ins.id,
   practitioner |-> G(ins, "practitioner"),
   code |-> G(ins, "code"),
   specialty |-> G(ins, "specialty"),
   location |-> G(ins, "location"),
   updatedAt |-> Val(now),
   identifier |-> OrNull(G(ins, "identifier")),
   active |-> OrTrue(G(ins, "active")),
   organization |-> OrNull(G(ins, "organization")),
   telecom |-> OrNull(G(ins, "telecom")),
   npi |-> OrElseText(G(ins, "npi"), Null),
   insuranceAccepted |-> OrNull(G(ins, "insuranceAccepted")),
   optumData |-> OrNull(G(ins, "optumData")),
   languagesSpoken |-> OrNull(G(ins, "languagesSpoken")),
   education |-> OrNull(G(ins, "education")),
   boardCertifications |-> OrNull(G(ins, "boardCertifications")),
   hospitalAffiliations |-> OrNull(G(ins, "hospitalAffiliations")),
   publisherUrl |-> OrNull(G(ins, "publisherUrl"))]

\* the record bulkUpsertSchedules stores for one InsertSchedule
toSchedule(ins, now) ==
  [id |-> ins.id,
   serviceType |-> G(ins, "serviceType"),
   actor |-> G(ins, "actor"),
   updatedAt |-> Val(now),
   identifier |-> OrNull(G(ins, "identifier")),
   active |-> OrTrue(G(ins, "active")),
   extension |-> OrNull(G(ins, "extension")),
   publisherUrl |-> OrNull(G(ins, "publisherUrl"))]

\* the record bulkUpsertSlots stores for one InsertSlot
toSlot(ins, now) ==
  [id |-> ins.id,
   schedule |-> G(ins, "schedule"),
   status |-> G(ins, "status"),
   start |-> G(ins, "start"),
   end |-> G(ins, "end"),
   updatedAt |-> Val(now),
   extension |-> OrNull(G(ins, "extension")),
   appointmentType |-> OrNullStr(G(ins, "appointmentType")),
   isVirtual |-> OrNullBool(G(ins, "isVirtual")),
   publisherUrl |-> OrNull(G(ins, "publisherUrl"))]

toRecord(type, ins, now) ==
  CASE type = "Location" -> toLocation(ins, now)
    [] type = "PractitionerRole" -> toPractitionerRole(ins, now)
    [] type = "Schedule" -> toSchedule(ins, now)
    [] type = "Slot" -> toSlot(ins, now)

\* a sync that replaces the collection by the batch
bulkReplace(type, coll, batch, now) ==
  [i \in 1..Len(batch) |-> toRecord(type, batch[i], now)]
RECURSIVE bulkUpsert(_, _, _, _)
\* MemStorage.bulkUpsert<type>: one Map.set per element of the batch, in order
bulkUpsert(type, coll, batch, now) ==
  IF batch = <<>> THEN coll
  ELSE bulkUpsert(type, MapSet(coll, toRecord(type, Head(batch), now)),
                  Tail(batch), now)

\* ------------------------------------------------------------- DbStorage
\* a column left undefined in .values() takes its default: NULL
DbNull(o) == IF IsVal(o) THEN o ELSE Null
\* boolean("active").default(true): undefined takes the default, null stays
DbDefaultTrue(o) == IF o = Undefined THEN Val(TRUE) ELSE o

toLocationRow(ins, now) ==
  [id |-> ins.id,
   name |-> G(ins, "name"),
   telecom |-> G(ins, "telecom"),
   address |-> G(ins, "address"),
   identifier |-> DbNull(G(ins, "identifier")),
   description |-> DbNull(G(ins, "description")),
   position |-> DbNull(G(ins, "position")),
   publisherUrl |-> DbNull(G(ins, "publisherUrl")),
   updatedAt |-> Val(now)]

toPractitionerRoleRow(ins, now) ==
  [id |-> ins.id,
   identifier |-> DbNull(G(ins, "identifier")),
   active |-> DbDefaultTrue(G(ins, "active")),
   practitioner |-> G(ins, "practitioner"),
   organization |-> DbNull(G(ins, "organization")),
   code |-> G(ins, "code"),
   specialty |-> G(ins, "specialty"),
   location |-> G(ins, "location"),
   telecom |-> DbNull(G(ins, "telecom")),
   npi |-> DbNull(G(ins, "npi")),
   insuranceAccepted |-> DbNull(G(ins, "insuranceAccepted")),
   optumData |-> DbNull(G(ins, "optumData")),
   languagesSpoken |-> DbNull(G(ins, "languagesSpoken")),
   education |-> DbNull(G(ins, "education")),
   boardCertifications |-> DbNull(G(ins, "boardCertifications")),
   hospitalAffiliations |-> DbNull(G(ins, "hospitalAffiliations")),
   publisherUrl |-> DbNull(G(ins, "publisherUrl")),
   updatedAt |-> Val(now)]

toScheduleRow(ins, now) ==
  [id |-> ins.id,
   identifier |-> DbNull(G(ins, "identifier")),
   active |-> DbDefaultTrue(G(ins, "active")),
   serviceType |-> G(ins, "serviceType"),
   actor |-> G(ins, "actor"),
   extension |-> DbNull(G(ins, "extension")),
   publisherUrl |-> DbNull(G(ins, "publisherUrl")),
   updatedAt |-> Val(now)]

toSlotRow(ins, now) ==
  [id |-> ins.id,
   schedule |-> G(ins, "schedule"),
   status |-> G(ins, "status"),
   start |-> G(ins, "start"),
   end |-> G(ins, "end"),
   extension |-> DbNull(G(ins, "extension")),
   appointmentType |-> DbNull(G(ins, "appointmentType")),
   isVirtual |-> DbNull(G(ins, "isVirtual")),
   publisherUrl |-> DbNull(G(ins, "publisherUrl")),
   updatedAt |-> Val(now)]

toRow(type, ins, now) ==
  CASE type = "Location" -> toLocationRow(ins, now)
    [] type = "PractitionerRole" -> toPractitionerRoleRow(ins, now)
    [] type = "Schedule" -> toScheduleRow(ins, now)
    [] type = "Slot" -> toSlotRow(ins, now)

\* the .notNull() columns of each table
NotNullColumns(type) ==
  CASE type = "Location" -> {"name", "telecom", "address"}
    [] type = "PractitionerRole" -> {"practitioner", "code", "specialty", "location"}
    [] type = "Schedule" -> {"serviceType", "actor"}
    [] type = "Slot" -> {"schedule", "status", "start", "end"}

\* the INSERT ... ON CONFLICT DO UPDATE statement fails as a whole, and writes
\* nothing, when a NOT NULL column has no value or when two rows of the
\* statement carry the same id
StatementFails(type, batch) ==
  \/ \E i \in 1..Len(batch) : \E c \in NotNullColumns(type) : ~IsVal(G(batch[i], c))
  \/ \E i, j \in 1..Len(batch) : i < j /\ batch[i].id = batch[j].id

RECURSIVE UpsertRows(_, _, _, _)
\* a new id is inserted, an existing row has every column overwritten
UpsertRows(type, rows, batch, now) ==
  IF batch = <<>> THEN rows
  ELSE UpsertRows(type, MapSet(rows, toRow(type, Head(batch), now)),
                  Tail(batch), now)

\* INSERT ... ON CONFLICT DO NOTHING: a row whose id is stored stays as it is
dbBulkInsertMissing(type, rows, batch, now) ==
  IF batch = <<>> \/ StatementFails(type, batch) THEN rows
  ELSE UpsertRows(type, rows,
                  SelectSeq(batch, LAMBDA ins : ins.id \notin Ids(rows)), now)

\* DbStorage.bulkUpsert<type>
dbBulkUpsert(type, rows, batch, now) ==
  IF batch = <<>> \/ StatementFails(type, batch) THEN rows
  ELSE UpsertRows(type, rows, batch, now)

\* storage.bulkUpsert<type> of the storage that USE_DB_STORAGE selects
storageBulkUpsert(kind, type, coll, batch, now) ==
  IF kind = "db" THEN dbBulkUpsert(type, coll, batch, now)
  ELSE bulkUpsert(type, coll, batch, now)

\* ------------------------------------------------- strings of the data
sLee == <<112, 5, 5>>
sDermatology == <<104, 5, 18, 13, 1, 20, 15, 12, 15, 7, 25>>
sCardiology == <<103, 1, 18, 4, 9, 15, 12, 15, 7, 25>>
sBoston == <<102, 15, 19, 20, 15, 14>>
sNewYork == <<114, 5, 23, 0, 125, 15, 18, 11>>
sMA == <<113, 101>>
sNY == <<114, 125>>
sClinic == <<103, 12, 9, 14, 9, 3>>

\* EXTENSION_URLS
BOOKING_DEEP_LINK == "http://fhir-registry.smarthealthit.org/StructureDefinition/booking-deep-link"
BOOKING_PHONE == "http://fhir-registry.smarthealthit.org/StructureDefinition/booking-phone"
APPOINTMENT_TYPE == "http://fhir-registry.smarthealthit.org/StructureDefinition/appointment-type"
VIRTUAL_SERVICE == "http://fhir-registry.smarthealthit.org/StructureDefinition/virtual-service-base"
\* an extension URL of another registry that contains 'virtual-service'
OTHER_VIRTUAL == "http://example.org/StructureDefinition/virtual-service-video"

\* url.includes('virtual-service'), over the URLs of the model
UrlIncludesVirtualService(url) == url \in {VIRTUAL_SERVICE, OTHER_VIRTUAL}

\* extractAppointmentType(extensions)
extractAppointmentType(extensions) ==
  IF ~IsVal(extensions) THEN Null
  ELSE LET hits == {i \in 1..Len(extensions.v) :
                      G(extensions.v[i], "url") = Val(APPOINTMENT_TYPE)}
       IN IF hits = {} THEN Null
          ELSE LET ext == extensions.v[CHOOSE i \in hits : \A j \in hits : i <= j]
                   cc == G(ext, "valueCodeableConcept")
                   text == IF IsVal(cc) THEN G(cc.v, "text") ELSE Undefined
                   coding == IF IsVal(cc) THEN G(cc.v, "coding") ELSE Undefined
                   display == IF IsVal(coding) /\ coding.v # <<>>
                              THEN G(coding.v[1], "display") ELSE Undefined
               IN OrNullStr(OrElse(OrNullStr(G(ext, "valueString")),
                                   OrElse(OrNullStr(text), display)))

\* hasVirtualService(extensions)
hasVirtualService(extensions) ==
  IF ~IsVal(extensions) THEN FALSE
  ELSE \E i \in 1..Len(extensions.v) :
         LET url == G(extensions.v[i], "url")
         IN url = Val(VIRTUAL_SERVICE)
            \/ (IsVal(url) /\ UrlIncludesVirtualService(url.v))

\* syncFHIRDataFromSource: the InsertLocation built from one parsed resource
mapLocation(resource, sourceUrl) ==
  [id |-> resource.id,
   name |-> G(resource, "name"),
   telecom |-> OrEmpty(G(resource, "telecom")),
   address |-> G(resource, "address"),
   identifier |-> G(resource, "identifier"),
   description |-> G(resource, "description"),
   position |-> G(resource, "position"),
   publisherUrl |-> Val(sourceUrl)]

mapPractitionerRole(resource, sourceUrl) ==
  [id |-> resource.id,
   identifier |-> G(resource, "identifier"),
   active |-> G(resource, "active"),
   practitioner |-> G(resource, "practitioner"),
   organization |-> G(resource, "organization"),
   code |-> G(resource, "code"),
   specialty |-> G(resource, "specialty"),
   location |-> G(resource, "location"),
   telecom |-> G(resource, "telecom"),
   publisherUrl |-> Val(sourceUrl)]

mapSchedule(resource, sourceUrl) ==
  [id |-> resource.id,
   identifier |-> G(resource, "identifier"),
   active |-> G(resource, "active"),
   serviceType |-> G(resource, "serviceType"),
   actor |-> G(resource, "actor"),
   extension |-> G(resource, "extension"),
   publisherUrl |-> Val(sourceUrl)]

mapSlot(resource, sourceUrl) ==
  [id |-> resource.id,
   schedule |-> G(resource, "schedule"),
   status |-> G(resource, "status"),
   start |-> G(resource, "start"),
   end |-> G(resource, "end"),
   extension |-> G(resource, "extension"),
   appointmentType |-> extractAppointmentType(G(resource, "extension")),
   isVirtual |-> Val(hasVirtualService(G(resource, "extension"))),
   publisherUrl |-> Val(sourceUrl)]

mapResource(type, resource, sourceUrl) ==
  CASE type = "Location" -> mapLocation(resource, sourceUrl)
    [] type = "PractitionerRole" -> mapPractitionerRole(resource, sourceUrl)
    [] type = "Schedule" -> mapSchedule(resource, sourceUrl)
    [] type = "Slot" -> mapSlot(resource, sourceUrl)

\* resources.map(resource => ({...}))
mapBatch(type, resources, sourceUrl) ==
  [i \in 1..Len(resources) |-> mapResource(type, resources[i], sourceUrl)]

\* ------------------------------------------------- what the publishers serve
\* Publisher p serves, for each type, the resources with ids p and p + 1, so
\* that neighbouring publishers both supply id p + 1, each in its own version.
\* Its two practitioners differ in specialty; its first Schedule belongs to
\* the first of them, its second Schedule is shared by both. Location.name is
\* optional in FHIR: the last publisher's second Location comes without one.
\* The roles of the last publisher name no Location: the first has an empty
\* location array, the second has no location property.
\* The Slots of an odd publisher carry a booking phone, those of an even one
\* the virtual-service marker; the last publisher's second Slot also carries
\* a booking deep link.
GivenName(id) == <<100 + id, id, id>>
DisplayName(id) == GivenName(id) \o <<0>> \o sLee

RawLocation(p, id) ==
  [resourceType |-> "Location", id |-> id,
   name |-> IF p = NumPublishers /\ id = p + 1 THEN Undefined
            ELSE Val(sClinic \o <<0, 100 + p>>),
   address |-> Val([city |-> Val(IF id % 2 = 1 THEN sBoston ELSE sNewYork),
                    state |-> Val(IF id % 2 = 1 THEN sMA ELSE sNY)])]

RawPractitionerRole(p, id) ==
  [resourceType |-> "PractitionerRole", id |-> id,
   practitioner |-> Val([display |-> Val(DisplayName(id))]),
   code |-> Val(<<>>),
   specialty |-> Val(<<[coding |-> Val(<<
       [display |-> Val(IF (p + id) % 2 = 1 THEN sDermatology ELSE sCardiology),
        code |-> Val(<<30 + p>>)]>>)]>>),
   location |-> IF p = NumPublishers /\ id = p + 1 THEN Undefined
                ELSE IF p = NumPublishers THEN Val(<<>>)
                ELSE Val(<<[reference |-> Ref("Location", id)]>>)]

RawSchedule(p, id) ==
  [resourceType |-> "Schedule", id |-> id,
   serviceType |-> Val(<<30 + p>>),
   actor |-> Val(<<[reference |-> Ref("PractitionerRole", id)],
                   [reference |-> Ref("Location", id)]>>
                 \o IF id = p + 1
                    THEN <<[reference |-> Ref("PractitionerRole", p)]>>
                    ELSE <<>>)]

RawSlot(p, id) ==
  [resourceType |-> "Slot", id |-> id,
   schedule |-> Val([reference |-> Ref("Schedule", id)]),
   status |-> Val(IF p % 2 = 1 THEN "free" ELSE "busy"),
   start |-> Val(p), end |-> Val(p + 1),
   extension |-> Val((IF p = NumPublishers /\ id = p + 1
                      THEN <<[url |-> Val(BOOKING_DEEP_LINK),
                              valueUrl |-> Val(<<8, 20, 20, 16, 30 + p>>)]>>
                      ELSE <<>>)
                     \o (IF p % 2 = 1
                         THEN <<[url |-> Val(BOOKING_PHONE),
                                 valueString |-> Val(<<30 + p>>)]>>
                         ELSE <<[url |-> Val(VIRTUAL_SERVICE)]>>))]

RawResource(type, p, id) ==
  CASE type = "Location" -> RawLocation(p, id)
    [] type = "PractitionerRole" -> RawPractitionerRole(p, id)
    [] type = "Schedule" -> RawSchedule(p, id)
    [] type = "Slot" -> RawSlot(p, id)

\* the parsed lines of the NDJSON file of one type at publisher p
Feed(p, type) == <<RawResource(type, p, p), RawResource(type, p, p + 1)>>
\* the types of manifest.output, in the manifest's order
ManifestTypes(p) == ResourceTypes

\* ------------------------------------------------------- enrichment
sMedicare == <<113, 5, 4, 9, 3, 1, 18, 5>>
sMedicaid == <<113, 5, 4, 9, 3, 1, 9, 4>>
sBlueCross == <<102, 12, 21, 5, 0, 103, 18, 15, 19, 19, 0, 102, 12, 21, 5, 0, 119, 8, 9, 5, 12, 4>>
sAetna == <<101, 5, 20, 14, 1>>
sUnitedHealthcare == <<121, 14, 9, 20, 5, 4, 108, 5, 1, 12, 20, 8, 3, 1, 18, 5>>
sCigna == <<103, 9, 7, 14, 1>>
sCommercial == <<103, 15, 13, 13, 5, 18, 3, 9, 1, 12, 0, 109, 14, 19, 21, 18, 1, 14, 3, 5>>
sEnglish == <<105, 14, 7, 12, 9, 19, 8>>
sSpanish == <<119, 16, 1, 14, 9, 19, 8>>
sEn == <<5, 14>>
sEs == <<5, 19>>
sUnknown == <<121, 14, 11, 14, 15, 23, 14>>
sDegreeMD == <<113, 104, 0, 41, 0, 104, 15, 3, 20, 15, 18, 0, 15, 6, 0, 113, 5, 4, 9, 3, 9, 14, 5>>
sHarvard == <<108, 1, 18, 22, 1, 18, 4, 0, 113, 5, 4, 9, 3, 1, 12, 0, 119, 3, 8, 15, 15, 12>>
sPeriod1519 == <<32, 30, 31, 35, 41, 32, 30, 31, 39>>
sDegreeBS == <<102, 119, 0, 41, 0, 102, 9, 15, 3, 8, 5, 13, 9, 19, 20, 18, 25>>
sMIT == <<113, 109, 120>>
sPeriod1115 == <<32, 30, 31, 31, 41, 32, 30, 31, 35>>
sBoardDerm == <<102, 15, 1, 18, 4, 0, 103, 5, 18, 20, 9, 6, 9, 5, 4, 0, 9, 14, 0, 104, 5, 18, 13, 1, 20, 15, 12, 15, 7, 25>>
sABD == <<101, 13, 5, 18, 9, 3, 1, 14, 0, 102, 15, 1, 18, 4, 0, 15, 6, 0, 104, 5, 18, 13, 1, 20, 15, 12, 15, 7, 25>>
sPeriod20 == <<32, 30, 32, 30, 41, 116, 18, 5, 19, 5, 14, 20>>
sFAAD == <<106, 101, 101, 104, 0, 41, 0, 106, 5, 12, 12, 15, 23, 0, 101, 13, 5, 18, 9, 3, 1, 14, 0, 101, 3, 1, 4, 5, 13, 25, 0, 15, 6, 0, 104, 5, 18, 13, 1, 20, 15, 12, 15, 7, 25>>
sAAD == <<101, 101, 104>>
sMGH == <<113, 1, 19, 19, 1, 3, 8, 21, 19, 5, 20, 20, 19, 0, 107, 5, 14, 5, 18, 1, 12, 0, 108, 15, 19, 16, 9, 20, 1, 12>>
sHospitalAffiliation == <<108, 15, 19, 16, 9, 20, 1, 12, 0, 101, 6, 6, 9, 12, 9, 1, 20, 9, 15, 14>>
sDegree == <<4, 5, 7, 18, 5, 5>>
sBoard == <<2, 15, 1, 18, 4>>

NPI_SYSTEM == "http://hl7.org/fhir/sid/us-npi"
NPPES_SYSTEM == "https://nppes.cms.hhs.gov/NPPES/Welcome.do"
\* URLs of the directory's vendor extensions and code systems
OPTUM_INSURANCE == "http://optum.com/fhir/StructureDefinition/insurance-plan"
OPTUM_AFFILIATION == "http://optum.com/fhir/StructureDefinition/hospital-affiliation"
EDUCATION_SYSTEM == "http://optum.com/fhir/CodeSystem/education"
CERTIFICATION_SYSTEM == "http://optum.com/fhir/CodeSystem/certification"
\* url.includes('insurance') || url.includes('payor'), over the URLs of the model
UrlIncludesInsurance(url) == url = OPTUM_INSURANCE
\* url.includes('affiliation')
UrlIncludesAffiliation(url) == url = OPTUM_AFFILIATION
\* system.includes('education'), system.includes('certification')
UrlIncludesEducation(url) == url = EDUCATION_SYSTEM
UrlIncludesCertification(url) == url = CERTIFICATION_SYSTEM

\* array.filter(keep)
Filter(s, keep(_)) == SelectSeq(s, keep)

\* the placeholder list extractInsuranceInfo falls back to
FallbackInsurance ==
  <<[type |-> Val(sMedicare), accepted |-> Val(TRUE)],
    [type |-> Val(sMedicaid), accepted |-> Val(TRUE)],
    [type |-> Val(sCommercial), accepted |-> Val(TRUE)],
    [type |-> Val(sBlueCross), accepted |-> Val(TRUE)],
    [type |-> Val(sAetna), accepted |-> Val(TRUE)],
    [type |-> Val(sUnitedHealthcare), accepted |-> Val(TRUE)],
    [type |-> Val(sCigna), accepted |-> Val(TRUE)]>>

\* cc?.text, cc?.coding?.[0]?.<field>
CcText(cc) == IF IsVal(cc) THEN G(cc.v, "text") ELSE Undefined
CcCoding0(cc, field) ==
  IF IsVal(cc) /\ IsVal(G(cc.v, "coding")) /\ G(cc.v, "coding").v # <<>>
  THEN G(G(cc.v, "coding").v[1], field) ELSE Undefined

IsInsuranceExt(ext) == IsVal(G(ext, "url")) /\ UrlIncludesInsurance(G(ext, "url").v)
IsAffiliationExt(ext) == IsVal(G(ext, "url")) /\ UrlIncludesAffiliation(G(ext, "url").v)
\* qual.code?.coding?.[0]?.system?.includes(...)
SystemIncludes(system, inc(_)) == IsVal(system) /\ inc(system.v)
QualSystemIncludes(qual, inc(_)) ==
  SystemIncludes(CcCoding0(G(qual, "code"), "system"), inc)
IsEducation(qual) ==
  \/ QualSystemIncludes(qual, UrlIncludesEducation)
  \/ OptLowerIncludes(CcText(G(qual, "code")), sDegree)
IsCertification(qual) ==
  \/ QualSystemIncludes(qual, UrlIncludesCertification)
  \/ OptLowerIncludes(CcText(G(qual, "code")), sBoard)

\* x || [] for an array read off the directory practitioner
ArrayOf(o) == IF IsVal(o) THEN o.v ELSE <<>>
\* issuer?.display, valueReference?.display
DisplayOf(o) == IF IsVal(o) THEN G(o.v, "display") ELSE Undefined

InsuranceEntry(ext) ==
  [type |-> OrElse(OrNullStr(G(ext, "valueString")),
                   OrElse(OrNullStr(CcText(G(ext, "valueCodeableConcept"))),
                          Val(sUnknown))),
   code |-> CcCoding0(G(ext, "valueCodeableConcept"), "code"),
   system |-> CcCoding0(G(ext, "valueCodeableConcept"), "system")]
LanguageEntry(comm) ==
  [language |-> OrElse(OrNullStr(CcText(G(comm, "language"))),
                       CcCoding0(G(comm, "language"), "display")),
   code |-> CcCoding0(G(comm, "language"), "code")]
EducationEntry(qual) ==
  [degree |-> OrElse(OrNullStr(CcText(G(qual, "code"))),
                     CcCoding0(G(qual, "code"), "display")),
   institution |-> DisplayOf(G(qual, "issuer")),
   period |-> G(qual, "period")]
CertificationEntry(qual) ==
  [certification |-> OrElse(OrNullStr(CcText(G(qual, "code"))),
                            CcCoding0(G(qual, "code"), "display")),
   board |-> DisplayOf(G(qual, "issuer")),
   period |-> G(qual, "period")]
AffiliationEntry(ext) ==
  [organization |-> OrElse(OrNullStr(G(ext, "valueString")),
                           DisplayOf(G(ext, "valueReference"))),
   type |-> Val(sHospitalAffiliation)]

\* array.map(entry)
Map(arr, entry(_)) == [i \in 1..Len(arr) |-> entry(arr[i])]
\* insurance.length > 0 ? insurance : the placeholder list
OrFallback(insurance) == IF Len(insurance) = 0 THEN FallbackInsurance ELSE insurance

extractInsuranceInfo(practitioner) ==
  OrFallback(Map(Filter(ArrayOf(G(practitioner, "extension")), IsInsuranceExt),
                 InsuranceEntry))

extractLanguages(practitioner) ==
  IF IsVal(G(practitioner, "communication"))
  THEN Map(G(practitioner, "communication").v, LanguageEntry)
  ELSE <<[language |-> Val(sEnglish), code |-> Val(sEn)]>>

extractEducation(practitioner) ==
  Map(Filter(ArrayOf(G(practitioner, "qualification")), IsEducation), EducationEntry)

extractCertifications(practitioner) ==
  Map(Filter(ArrayOf(G(practitioner, "qualification")), IsCertification),
      CertificationEntry)

extractAffiliations(practitioner) ==
  Map(Filter(ArrayOf(G(practitioner, "extension")), IsAffiliationExt),
      AffiliationEntry)

\* formatPractitionerName(name): prefix, given, family, suffix joined by spaces
formatPractitionerName(name) ==
  Join((IF IsVal(G(name, "prefix")) THEN G(name, "prefix").v ELSE <<>>)
       \o (IF IsVal(G(name, "given")) THEN G(name, "given").v ELSE <<>>)
       \o (IF IsVal(OrNullStr(G(name, "family"))) THEN <<G(name, "family").v>> ELSE <<>>)
       \o (IF IsVal(G(name, "suffix")) THEN G(name, "suffix").v ELSE <<>>))

\* practitioner.name?.[0]
Name0(practitioner) ==
  IF IsVal(G(practitioner, "name")) /\ G(practitioner, "name").v # <<>>
  THEN Val(G(practitioner, "name").v[1]) ELSE Undefined

\* words.filter(w => w.length > 2)
LongWord(w) == Len(w) > 2
\* the words of words1 that contain or are contained in a word of words2,
\* over the larger of the two word counts
MatchRatio(words1, words2) ==
  <<Cardinality({i \in 1..Len(words1) :
      \E j \in 1..Len(words2) :
        Includes(words1[i], words2[j]) \/ Includes(words2[j], words1[i])}),
    IF Len(words1) > Len(words2) THEN Len(words1) ELSE Len(words2)>>
\* calculateNameSimilarity(name1, name2) as the fraction <<matches, max>>
calculateNameSimilarity(name1, name2) ==
  MatchRatio(Filter(Split(name1), LongWord), Filter(Split(name2), LongWord))

\* the threshold 0.6 of shouldEnrichPractitioner, as ThresholdNum / ThresholdDen
ThresholdNum == 6
ThresholdDen == 10
\* similarity > 0.6; 0 / 0 is NaN, which exceeds nothing
AboveThreshold(sim) == sim[2] > 0 /\ sim[1] * ThresholdDen > ThresholdNum * sim[2]

\* shouldEnrichPractitioner(role, optumPractitioner, npi)
\* role.practitioner?.display
RoleDisplay(role) ==
  IF IsVal(role.practitioner)
  THEN OrNullStr(G(role.practitioner.v, "display")) ELSE Undefined

\* the name comparison of shouldEnrichPractitioner
NamesMatch(roleDisplay, name0) ==
  /\ IsVal(roleDisplay)
  /\ IsVal(name0)
  /\ AboveThreshold(calculateNameSimilarity(
       ToLowerCase(roleDisplay.v),
       ToLowerCase(formatPractitionerName(name0.v))))

shouldEnrichPractitioner(role, optumPractitioner, npi) ==
  IF IsVal(role.npi) /\ role.npi.v # "" THEN FALSE
  ELSE NamesMatch(RoleDisplay(role), Name0(optumPractitioner))

\* the NPI enrichWithOptumData reads off the practitioner's identifiers
NpiOf(ids, hit) == IF hit = 0 THEN Undefined ELSE G(ids[hit], "value")
NpiIn(ids) ==
  NpiOf(ids, FirstIndex({i \in 1..Len(ids) :
                           \/ G(ids[i], "system") = Val(NPI_SYSTEM)
                           \/ G(ids[i], "system") = Val(NPPES_SYSTEM)
                           \/ G(ids[i], "use") = Val("official")}))
extractNpi(practitioner) ==
  IF ~IsVal(G(practitioner, "identifier")) THEN Null
  ELSE NpiIn(G(practitioner, "identifier").v)

\* the payload enrichWithOptumData builds for one directory practitioner
optumPayload(practitioner, npi) ==
  [npi |-> npi,
   insuranceAccepted |-> Val(extractInsuranceInfo(practitioner)),
   languagesSpoken |-> Val(extractLanguages(practitioner)),
   education |-> Val(extractEducation(practitioner)),
   boardCertifications |-> Val(extractCertifications(practitioner)),
   hospitalAffiliations |-> Val(extractAffiliations(practitioner)),
   optumData |-> Val([fullName |-> IF IsVal(Name0(practitioner))
                                   THEN Val(formatPractitionerName(Name0(practitioner).v))
                                   ELSE Null,
                      qualifications |-> OrEmpty(G(practitioner, "qualification")),
                      source |-> Val("optum")])]

\* the hardcoded demonstration payload
sampleOptumData(first, now) ==
  [npi |-> Val("1234567890"),
   insuranceAccepted |-> Val(<<
     [type |-> Val(sMedicare), accepted |-> Val(TRUE)],
     [type |-> Val(sMedicaid), accepted |-> Val(TRUE)],
     [type |-> Val(sBlueCross), accepted |-> Val(TRUE)],
     [type |-> Val(sAetna), accepted |-> Val(TRUE)],
     [type |-> Val(sUnitedHealthcare), accepted |-> Val(TRUE)],
     [type |-> Val(sCigna), accepted |-> Val(TRUE)],
     [type |-> Val(sCommercial), accepted |-> Val(TRUE)]>>),
   languagesSpoken |-> Val(<<[language |-> Val(sEnglish), code |-> Val(sEn)],
                             [language |-> Val(sSpanish), code |-> Val(sEs)]>>),
   education |-> Val(<<
     [degree |-> Val(sDegreeMD), institution |-> Val(sHarvard), period |-> Val(sPeriod1519)],
     [degree |-> Val(sDegreeBS), institution |-> Val(sMIT), period |-> Val(sPeriod1115)]>>),
   boardCertifications |-> Val(<<
     [certification |-> Val(sBoardDerm), board |-> Val(sABD), period |-> Val(sPeriod20)],
     [certification |-> Val(sFAAD), board |-> Val(sAAD), period |-> Val(sPeriod20)]>>),
   hospitalAffiliations |-> Val(<<
     [organization |-> Val(sMGH), type |-> Val(sHospitalAffiliation)]>>),
   optumData |-> Val([fullName |-> IF IsVal(first.practitioner)
                                   THEN G(first.practitioner.v, "display")
                                   ELSE Val(sUnknown),
                      source |-> Val("optum_demo"),
                      lastUpdated |-> Val(now)])]

\* a merge that rebuilds the record and forgets where it came from
enrichDroppingProvenance(roles, practitionerId, optumData, now) ==
  IF practitionerId \notin Ids(roles) THEN roles
  ELSE MapSet(roles, [Lookup(roles, practitionerId) EXCEPT
                        !.npi = OrElseText(optumData.npi, @),
                        !.insuranceAccepted = OrElse(optumData.insuranceAccepted, @),
                        !.updatedAt = Val(now),
                        !.publisherUrl = Null])
\* MemStorage.enrichPractitionerWithOptumData(practitionerId, optumData)
enrichPractitionerWithOptumData(roles, practitionerId, optumData, now) ==
  IF practitionerId \notin Ids(roles) THEN roles
  ELSE LET existing == Lookup(roles, practitionerId)
           enriched == [existing EXCEPT
             !.npi = OrElseText(optumData.npi, existing.npi),
             !.insuranceAccepted = OrElse(optumData.insuranceAccepted, existing.insuranceAccepted),
             !.optumData = OrElse(optumData.optumData, existing.optumData),
             !.languagesSpoken = OrElse(optumData.languagesSpoken, existing.languagesSpoken),
             !.education = OrElse(optumData.education, existing.education),
             !.boardCertifications = OrElse(optumData.boardCertifications, existing.boardCertifications),
             !.hospitalAffiliations = OrElse(optumData.hospitalAffiliations, existing.hospitalAffiliations),
             !.updatedAt = Val(now)]
       IN MapSet(roles, enriched)

\* a loop that goes on after a match and keeps the last role accepted
LastMatch(snapshot, practitioner, npi) ==
  LET S == {i \in 1..Len(snapshot) :
              shouldEnrichPractitioner(snapshot[i], practitioner, npi)}
  IN IF S = {} THEN 0 ELSE CHOOSE i \in S : \A j \in S : j <= i
\* the first role of the snapshot that shouldEnrichPractitioner accepts (0: none)
FirstMatch(snapshot, practitioner, npi) ==
  FirstIndex({i \in 1..Len(snapshot) :
                shouldEnrichPractitioner(snapshot[i], practitioner, npi)})

\* the role of the snapshot that one entry of the bundle enriches (0: the
\* entry is skipped or matches no role)
HitWithNpi(snapshot, practitioner, npi) ==
  IF ~(IsVal(npi) /\ npi.v # "") THEN 0
  ELSE FirstMatch(snapshot, practitioner, npi)
EntryHit(snapshot, practitioner) ==
  IF ~IsVal(practitioner)
     \/ G(practitioner.v, "resourceType") # Val("Practitioner") THEN 0
  ELSE HitWithNpi(snapshot, practitioner.v, extractNpi(practitioner.v))

\* the store's roles after one entry of the bundle
EnrichStep(roles, snapshot, practitioner, hit, now) ==
  IF hit = 0 THEN roles
  ELSE enrichPractitionerWithOptumData(
         roles, snapshot[hit].id,
         optumPayload(practitioner.v, extractNpi(practitioner.v)), now)

RECURSIVE EnrichLoop(_, _, _, _, _)
RECURSIVE EnrichRest(_, _, _, _, _, _)
\* enrichWithOptumData: the loop over optumBundle.entry; the inner loop runs
\* over the snapshot existingRoles, the writes go to the store
EnrichLoop(roles, snapshot, entries, enrichedCount, now) ==
  IF entries = <<>> THEN [roles |-> roles, enrichedCount |-> enrichedCount]
  ELSE EnrichRest(roles, snapshot, entries, enrichedCount, now,
                  EntryHit(snapshot, G(Head(entries), "resource")))
EnrichRest(roles, snapshot, entries, enrichedCount, now, hit) ==
  EnrichLoop(EnrichStep(roles, snapshot, G(Head(entries), "resource"), hit, now),
             snapshot, Tail(entries),
             IF hit = 0 THEN enrichedCount ELSE enrichedCount + 1, now)

\* the demonstration seeding that follows the loop
SeedStep(done, snapshot, now) ==
  IF done.enrichedCount = 0 /\ Len(snapshot) > 0
  THEN [roles |-> enrichPractitionerWithOptumData(
                    done.roles, snapshot[1].id,
                    sampleOptumData(snapshot[1], now), now),
        outcome |-> "processed", enrichedCount |-> 0, seeded |-> TRUE]
  ELSE [roles |-> done.roles, outcome |-> "processed",
        enrichedCount |-> done.enrichedCount, seeded |-> FALSE]

\* enrichWithOptumData once the directory has answered with optumBundle
enrichWithOptumData(roles, snapshot, optumBundle, now) ==
  IF ~IsVal(G(optumBundle, "entry"))
  THEN [roles |-> roles, outcome |-> "no-entry-array", enrichedCount |-> 0,
        seeded |-> FALSE]
  ELSE SeedStep(EnrichLoop(roles, snapshot, G(optumBundle, "entry").v, 0, now),
                snapshot, now)

\* ------------------------------------------- what the directory answers
sZed == <<126, 5, 4>>
sMedicalDegree == <<113, 5, 4, 9, 3, 1, 12, 0, 104, 5, 7, 18, 5, 5>>
sBoardOfSurgery == <<102, 15, 1, 18, 4, 0, 15, 6, 0, 119, 21, 18, 7, 5, 18, 25>>

\* a directory practitioner with the name of role `id` and an NPI
DirEntry(id, npi) ==
  [resource |-> Val(
    [resourceType |-> Val("Practitioner"),
     name |-> Val(<<[given |-> Val(<<GivenName(id)>>), family |-> Val(sLee)]>>),
     identifier |-> Val(<<[system |-> Val(NPI_SYSTEM), value |-> Val(npi)]>>)])]

\* the same with vendor extensions, languages and qualifications
DirEntryRich(id, npi) ==
  [resource |-> Val(
    [resourceType |-> Val("Practitioner"),
     name |-> Val(<<[given |-> Val(<<GivenName(id)>>), family |-> Val(sLee)]>>),
     identifier |-> Val(<<[system |-> Val("urn:other"), value |-> Val("x")],
                          [use |-> Val("official"), value |-> Val(npi)]>>),
     extension |-> Val(<<[url |-> Val(OPTUM_INSURANCE), valueString |-> Val(sAetna)],
                         [url |-> Val(OPTUM_AFFILIATION), valueString |-> Val(sMGH)]>>),
     communication |-> Val(<<[language |-> Val([text |-> Val(sSpanish),
                                coding |-> Val(<<[code |-> Val(sEs)]>>)])]>>),
     qualification |-> Val(<<[code |-> Val([text |-> Val(sMedicalDegree)])],
                             [code |-> Val([text |-> Val(sBoardOfSurgery)])]>>)])]

\* a practitioner without any identifier the pass accepts as an NPI
DirEntryNoNpi(id) ==
  [resource |-> Val(
    [resourceType |-> Val("Practitioner"),
     name |-> Val(<<[given |-> Val(<<GivenName(id)>>), family |-> Val(sLee)]>>),
     identifier |-> Val(<<[system |-> Val("urn:other"), value |-> Val("x")]>>)])]

\* a practitioner who shares only the family name with the roles
DirEntryStranger ==
  [resource |-> Val(
    [resourceType |-> Val("Practitioner"),
     name |-> Val(<<[given |-> Val(<<sZed>>), family |-> Val(sLee)]>>),
     identifier |-> Val(<<[system |-> Val(NPI_SYSTEM), value |-> Val("9999999999")]>>)])]

DirEntryOrganization == [resource |-> Val([resourceType |-> Val("Organization")])]

Bundle(entries) == [resourceType |-> Val("Bundle"), entry |-> Val(entries)]

\* the answers of the directory the model draws from
DirectoryBundles ==
  { [resourceType |-> Val("OperationOutcome")],
    Bundle(<<>>),
    Bundle(<<DirEntryNoNpi(2), DirEntryRich(2, "2222222222")>>),
    Bundle(<<DirEntryOrganization, DirEntryStranger,
             DirEntry(1, "1111111111"), DirEntry(1, "3333333333")>>) }

\* ------------------------------------------------------ the sync cycle
\* getBulkPublishSources(): the configured order, here 2, 3, ..., 1, so that
\* "later in the list" is neither "higher URL" nor "lower URL"
ConfiguredSources == [i \in 1..NumPublishers |-> (i % NumPublishers) + 1]

NothingApplied == [type |-> "none", batch |-> <<>>, runs |-> 0, once |-> <<>>]
NoEnrichment == [outcome |-> "none", enrichedCount |-> 0, seeded |-> FALSE]

\* a route that answers 500 as soon as one publisher failed
syncRouteStrict(threw) == IF threw \/ failCount > 0 THEN 500 ELSE 200
\* POST /api/sync: the status answered once `await syncFHIRData()` is over
syncRoute(threw) == IF threw THEN 500 ELSE 200

\* a loop that gives up after the first publisher that fails
AbortAfterFailure(i) == NumPublishers + 1
\* the publisher the loop of syncFHIRData turns to after publisher number i failed
NextAfterFailure(i) == i + 1

\* the position of syncFHIRData once the loop is at publisher number i
LoopAt(i) == IF i > Len(sources) THEN "enrich" ELSE "source"

InitSync ==
  /\ store = EmptyStore
  /\ clock = 0
  /\ pc = "idle"
  /\ trigger = "none"
  /\ srcIdx = 1
  /\ outIdx = 1
  /\ successCount = 0
  /\ failCount = 0
  /\ attempted = <<>>
  /\ synced = {}
  /\ existingRoles = <<>>
  /\ enrichment = NoEnrichment
  /\ raised = FALSE
  /\ response = 0
  /\ fileFaults = 0
  /\ reply = [kind |-> "none"]
  /\ sources = ConfiguredSources
  /\ backend = "mem"
  /\ applied = NothingApplied
  /\ before = EmptyStore
  /\ contexts = <<>>
  /\ inflight = <<>>
  /\ writeOrder = <<>>
  /\ optumResponse = Undefined

\* syncFHIRData is called: at startup, by the cron tick or by POST /api/sync
StartCycle(t) ==
  /\ pc \in {"idle", "done"}
  /\ clock < MaxCycles
  /\ (t = "startup") = (pc = "idle")
  /\ clock' = clock + 1
  /\ trigger' = t
  /\ pc' = LoopAt(1)
  /\ srcIdx' = 1
  /\ outIdx' = 1
  /\ successCount' = 0
  /\ failCount' = 0
  /\ attempted' = <<>>
  /\ synced' = {}
  /\ existingRoles' = <<>>
  /\ enrichment' = NoEnrichment
  /\ raised' = FALSE
  /\ response' = 0
  /\ fileFaults' = 0
  /\ before' = store
  /\ UNCHANGED <<store, reply, sources, backend, applied, contexts, inflight, writeOrder, optumResponse>>

\* syncFHIRDataFromSource: the manifest arrives
FetchManifestOk ==
  /\ pc = "source"
  /\ attempted' = Append(attempted, sources[srcIdx])
  /\ pc' = "file"
  /\ outIdx' = 1
  /\ UNCHANGED <<store, clock, trigger, srcIdx, successCount, failCount, synced,
                 existingRoles, enrichment, raised, response, fileFaults, reply,
                 sources, backend, applied, before, contexts,
                 inflight, writeOrder, optumResponse>>

\* syncFHIRDataFromSource: the manifest request fails or the manifest is
\* malformed; the exception is rethrown and caught by the loop of syncFHIRData
FetchManifestFail ==
  /\ pc = "source"
  /\ attempted' = Append(attempted, sources[srcIdx])
  /\ failCount' = failCount + 1
  /\ srcIdx' = NextAfterFailure(srcIdx)
  /\ pc' = LoopAt(srcIdx')
  /\ UNCHANGED <<store, clock, trigger, outIdx, successCount, synced,
                 existingRoles, enrichment, raised, response, fileFaults, reply,
                 sources, backend, applied, before, contexts,
                 inflight, writeOrder, optumResponse>>

\* the loop over manifest.output moves on; after the last file the publisher
\* counts as succeeded
NextFile ==
  IF outIdx < Len(ManifestTypes(sources[srcIdx]))
  THEN /\ outIdx' = outIdx + 1
       /\ pc' = "file"
       /\ UNCHANGED <<srcIdx, successCount>>
  ELSE /\ outIdx' = 1
       /\ successCount' = successCount + 1
       /\ srcIdx' = srcIdx + 1
       /\ pc' = LoopAt(srcIdx')

\* one NDJSON file is fetched, parsed, mapped and bulk-upserted
SyncFileOk ==
  /\ pc = "file"
  /\ LET p == sources[srcIdx]
         type == ManifestTypes(p)[outIdx]
     IN /\ store' = [store EXCEPT ![type] =
                       bulkUpsert(type, @, mapBatch(type, Feed(p, type), p), clock)]
        /\ synced' = synced \cup {<<p, type>>}
  /\ NextFile
  /\ UNCHANGED <<clock, trigger, failCount, attempted, existingRoles, enrichment,
                 raised, response, fileFaults, reply, sources, backend, applied, before, contexts,
                 inflight, writeOrder, optumResponse>>

\* a try/catch around the whole loop: the first file that fails ends the
\* work on its publisher
SyncFileFailAbandoning ==
  /\ pc = "file"
  /\ fileFaults < MaxFileFaults
  /\ fileFaults' = fileFaults + 1
  /\ failCount' = failCount + 1
  /\ srcIdx' = srcIdx + 1
  /\ outIdx' = 1
  /\ pc' = LoopAt(srcIdx')
  /\ UNCHANGED <<store, clock, trigger, successCount, attempted, synced,
                 existingRoles, enrichment, raised, response, reply, sources,
                 backend, applied, before, contexts, inflight, writeOrder, optumResponse>>
\* one NDJSON file fails to fetch or to parse: logged, the file is skipped
SyncFileFail ==
  /\ pc = "file"
  /\ fileFaults < MaxFileFaults
  /\ fileFaults' = fileFaults + 1
  /\ NextFile
  /\ UNCHANGED <<store, clock, trigger, failCount, attempted, synced,
                 existingRoles, enrichment, raised, response, reply, sources, backend, applied, before, contexts,
                 inflight, writeOrder, optumResponse>>

\* syncFHIRData returns to its caller; POST /api/sync answers
Return ==
  /\ pc' = "done"
  /\ raised' = FALSE
  /\ response' = IF trigger = "manual" THEN syncRoute(FALSE) ELSE 0

\* enrichWithOptumData: the directory request fails; caught and logged
EnrichFetchFail ==
  /\ pc = "enrich"
  /\ optumResponse' = Undefined
  /\ existingRoles' = store.PractitionerRole
  /\ enrichment' = [outcome |-> "error", enrichedCount |-> 0, seeded |-> FALSE]
  /\ Return
  /\ UNCHANGED <<store, clock, trigger, srcIdx, outIdx, successCount, failCount,
                 attempted, synced, fileFaults, reply, sources, backend, applied, before, contexts,
                 inflight, writeOrder>>

\* enrichWithOptumData: the directory answers with optumBundle
EnrichPass(optumBundle) ==
  /\ pc = "enrich"
  /\ optumResponse' = optumBundle
  /\ existingRoles' = store.PractitionerRole
  /\ \E r \in {enrichWithOptumData(store.PractitionerRole, store.PractitionerRole,
                                    optumBundle, clock)} :
       /\ store' = [store EXCEPT !.PractitionerRole = r.roles]
       /\ enrichment' = [outcome |-> r.outcome, enrichedCount |-> r.enrichedCount,
                         seeded |-> r.seeded]
  /\ Return
  /\ UNCHANGED <<clock, trigger, srcIdx, outIdx, successCount, failCount,
                 attempted, synced, fileFaults, reply, sources, backend, applied, before, contexts,
                 inflight, writeOrder>>

NextSync ==
  \/ \E t \in {"startup", "cron", "manual"} : StartCycle(t)
  \/ FetchManifestOk
  \/ FetchManifestFail
  \/ SyncFileOk
  \/ SyncFileFail
  \/ EnrichFetchFail
  \/ \E b \in DirectoryBundles : EnrichPass(b)

SpecSync == InitSync /\ [][NextSync]_vars

\* ------------------------------------------- properties of the sync cycle
\* every file of publisher p's manifest was fetched, parsed and upserted
AllFilesSynced(p) ==
  \A k \in 1..Len(ManifestTypes(p)) : <<p, ManifestTypes(p)[k]>> \in synced
\* the positions in `sources` of the publishers whose file of `type` was
\* upserted this cycle and held a resource with this id
Suppliers(type, id) ==
  {i \in 1..Len(sources) :
     /\ <<sources[i], type>> \in synced
     /\ id \in Ids(Feed(sources[i], type))}
LastOf(S) == CHOOSE i \in S : \A j \in S : j <= i
\* the ids any publisher serves
FeedIds == 1..(NumPublishers + 1)
\* the record of the store agrees with the one built from publisher p's
\* resource in every field that syncFHIRDataFromSource maps
HoldsVersionOf(type, id, p) ==
  LET ins == mapResource(type, Lookup(Feed(p, type), id), p)
      rec == Lookup(store[type], id)
  IN /\ rec.publisherUrl = Val(p)
     /\ \A f \in DOMAIN ins : rec[f] = toRecord(type, ins, clock)[f]

\* C4: when a cycle is over, every configured publisher was attempted, in
\* the configured order and whichever manifests failed, and the store holds
\* every resource of every publisher whose manifest and files all arrived.
C4_EveryPublisherAttempted ==
  pc = "done" =>
    /\ attempted = sources
    /\ successCount + failCount = Len(sources)
    /\ \A i \in 1..Len(sources) :
         AllFilesSynced(sources[i]) =>
           \A k \in 1..Len(ResourceTypes) :
             Ids(Feed(sources[i], ResourceTypes[k])) \subseteq Ids(store[ResourceTypes[k]])
\* a cycle is over in which the first publisher's manifest failed and the
\* two others delivered everything
C4_Witness ==
  /\ pc = "done" /\ clock = 1
  /\ failCount = 1 /\ successCount = 2 /\ fileFaults = 0
  /\ ~AllFilesSynced(sources[1])
  /\ AllFilesSynced(sources[2]) /\ AllFilesSynced(sources[3])
  /\ Ids(store.Slot) = Ids(Feed(sources[2], "Slot")) \cup Ids(Feed(sources[3], "Slot"))

\* C5: no exception ever leaves syncFHIRData, no manual sync is answered
\* with an error, and a manual sync that is over was answered with 200,
\* whatever failed on the way.
C5_NeverRaises ==
  /\ ~raised
  /\ response # 500
  /\ (pc = "done" /\ trigger = "manual" => response = 200)
\* a manual sync is over in which every manifest failed and so did the
\* directory request
C5_Witness ==
  /\ pc = "done" /\ trigger = "manual"
  /\ failCount = Len(sources) /\ successCount = 0
  /\ enrichment.outcome = "error"
  /\ response = 200

\* C7: when a cycle is over and several publishers supplied a resource of
\* one type and id, the store holds the version of the one that comes last
\* in the configured order, tagged with that publisher's URL.
C7_LaterPublisherWins ==
  pc = "done" =>
    \A k \in 1..Len(ResourceTypes) : \A id \in FeedIds :
      Cardinality(Suppliers(ResourceTypes[k], id)) >= 2 =>
        HoldsVersionOf(ResourceTypes[k], id,
                       sources[LastOf(Suppliers(ResourceTypes[k], id))])
\* the last configured publisher has the lowest URL; it and the first one
\* both supplied a Slot with its successor's id, and the last one's is kept
C7_Witness ==
  /\ pc = "done"
  /\ Suppliers("Slot", sources[1]) = {1, Len(sources)}
  /\ sources[Len(sources)] < sources[1]
  /\ Lookup(store.Slot, sources[1]).publisherUrl = Val(sources[Len(sources)])
  /\ Lookup(store.Slot, sources[1]).status = Val("free")

\* C8: when an enrichment pass is over, every role that had an NPI in the
\* snapshot the pass took at its start is in the store exactly as it was.
C8_RolesWithNpiUntouched ==
  pc = "done" /\ enrichment.outcome # "none" =>
    \A i \in 1..Len(existingRoles) :
      IsVal(existingRoles[i].npi) =>
        Lookup(store.PractitionerRole, existingRoles[i].id) = existingRoles[i]


\* the roles of the snapshot that the pass left different in the store
MergedRoles ==
  {i \in 1..Len(existingRoles) :
     Lookup(store.PractitionerRole, existingRoles[i].id) # existingRoles[i]}
\* C21: when an enrichment pass has gone through the directory's entries and
\* merged some, it merged each onto a role of its own: the number of merges
\* is the number of roles the pass changed, no role was merged onto twice.
C21_EachRolePopulatedOnce ==
  (pc = "done" /\ enrichment.outcome = "processed" /\ ~enrichment.seeded)
    => enrichment.enrichedCount = Cardinality(MergedRoles)

\* C26: every Slot in the store has isVirtual true when one of its extensions
\* has a URL that is or contains the virtual-service marker, and false when
\* none has; it is never null or missing.
C26_IsVirtualIsBoolean ==
  \A i \in 1..Len(store.Slot) :
    store.Slot[i].isVirtual = Val(hasVirtualService(store.Slot[i].extension))

\* a cycle is over in which the manifest of every configured publisher failed
EveryPublisherFailed == pc = "done" /\ failCount = Len(sources)
\* the fields enrichPractitionerWithOptumData merges, and the stamp it sets
EnrichmentFields ==
  {"npi", "insuranceAccepted", "optumData", "languagesSpoken", "education",
   "boardCertifications", "hospitalAffiliations", "updatedAt"}
SameOutsideEnrichment(role, was) ==
  /\ DOMAIN role = DOMAIN was
  /\ \A f \in (DOMAIN was) \ EnrichmentFields : role[f] = was[f]

\* C11 as stated: when every configured publisher failed, the store after the
\* whole cycle, enrichment pass included, is the store the cycle started with.
C11_StoreAsBefore == EveryPublisherFailed => store = before
\* C11 as amended: when every configured publisher failed, the Locations,
\* Schedules and Slots are what they were when the cycle started, no
\* PractitionerRole was added, removed or moved, and a PractitionerRole differs
\* from what it was at most in the fields the enrichment pass merges and in
\* its updatedAt stamp.
C11_OnlyEnrichmentChanges ==
  EveryPublisherFailed =>
    /\ store.Location = before.Location
    /\ store.Schedule = before.Schedule
    /\ store.Slot = before.Slot
    /\ Len(store.PractitionerRole) = Len(before.PractitionerRole)
    /\ \A i \in 1..Len(before.PractitionerRole) :
         SameOutsideEnrichment(store.PractitionerRole[i], before.PractitionerRole[i])
\* every publisher failed in a cycle that started with a filled store, and the
\* directory matched a role that had no NPI: the role was enriched, not seeded
C11_Witness ==
  /\ EveryPublisherFailed
  /\ before.Slot # <<>>
  /\ enrichment.enrichedCount > 0 /\ ~enrichment.seeded
  /\ \E i \in 1..Len(before.PractitionerRole) :
       /\ ~IsVal(before.PractitionerRole[i].npi)
       /\ IsVal(store.PractitionerRole[i].npi)

\* C17: no step of a sync cycle or of its enrichment pass removes a resource:
\* the ids held for each resource type never shrink.
C17_IdsNeverShrink ==
  [][\A k \in 1..Len(ResourceTypes) :
       Ids(store[ResourceTypes[k]]) \subseteq Ids(store'[ResourceTypes[k]])]_vars
\* a second cycle is over in which some publisher failed, and the store still
\* holds a resource that no publisher supplied in this cycle
C17_Witness ==
  /\ pc = "done" /\ clock = 2 /\ failCount > 0
  /\ \E k \in 1..Len(ResourceTypes) : \E id \in Ids(store[ResourceTypes[k]]) :
       Suppliers(ResourceTypes[k], id) = {}

\* the files of publisher p that were upserted in this cycle
FilesSynced(p) == {type \in Range(ManifestTypes(p)) : <<p, type>> \in synced}
\* C18: a file that fails to fetch or to parse is the only one skipped: the
\* step upserts nothing and moves on to the next file of the same manifest
\* (or, after the last file, closes the publisher as succeeded), so that at
\* the end of the cycle a publisher whose manifest arrived has had every file
\* upserted but the ones that failed, and the store holds their resources.
C18_OnlyTheFailedFileSkipped ==
  /\ [][fileFaults' = fileFaults + 1 =>
          /\ store' = store /\ synced' = synced /\ failCount' = failCount
          /\ IF outIdx < Len(ManifestTypes(sources[srcIdx]))
             THEN pc' = "file" /\ srcIdx' = srcIdx /\ outIdx' = outIdx + 1
             ELSE srcIdx' = srcIdx + 1 /\ successCount' = successCount + 1]_vars
  /\ [](pc = "done" =>
          \A p \in Range(sources) :
            FilesSynced(p) # {} =>
              /\ Cardinality(FilesSynced(p)) >= Len(ManifestTypes(p)) - fileFaults
              /\ \A type \in FilesSynced(p) :
                   Ids(Feed(p, type)) \subseteq Ids(store[type]))
\* a cycle is over in which the Location file of a publisher failed and its
\* three other files, which come later in the manifest, were upserted
C18_Witness ==
  /\ pc = "done" /\ fileFaults = 1
  /\ \E p \in Range(sources) :
       /\ FilesSynced(p) = {"PractitionerRole", "Schedule", "Slot"}
       /\ Ids(Feed(p, "Slot")) \subseteq Ids(store.Slot)
       /\ Ids(Feed(p, "Location")) \cap Ids(store.Location) = {}

\* ------------------------------------------------------ matching passes
\* Enrichment passes over stores whose roles have names of one, two and three
\* words, against directory answers whose names overlap with several of them.
sAnn == <<101, 14, 14>>
sMarie == <<113, 1, 18, 9, 5>>
sAnnabel == <<101, 14, 14, 1, 2, 5, 12>>

\* a PractitionerRole as a publisher serves it, with this display name
NamedRole(id, display) ==
  [RawPractitionerRole(1, id) EXCEPT !.practitioner = Val([display |-> Val(display)])]
\* the roles of the store once a publisher's file with these lines is synced
rolesSynced(resources, now) ==
  bulkUpsert("PractitionerRole", <<>>,
             mapBatch("PractitionerRole", resources, 1), now)
\* the files the matching passes start from
RoleFiles ==
  { <<>>,
    <<NamedRole(1, Join(<<sAnn, sLee>>)), NamedRole(2, Join(<<sAnn, sMarie, sLee>>))>>,
    <<NamedRole(2, Join(<<sAnn, sMarie, sLee>>)), NamedRole(1, Join(<<sAnn, sLee>>))>>,
    <<NamedRole(3, sAnn), NamedRole(1, Join(<<sAnn, sLee>>))>>,
    <<NamedRole(1, DisplayName(1)), NamedRole(2, DisplayName(2))>> }

\* a directory practitioner with these given names, this family name and NPI
NamedEntry(given, family, npi) ==
  [resource |-> Val(
    [resourceType |-> Val("Practitioner"),
     name |-> Val(<<[given |-> Val(given), family |-> Val(family)]>>),
     identifier |-> Val(<<[system |-> Val(NPI_SYSTEM), value |-> Val(npi)]>>)])]
\* the answers of the directory in the matching passes
MatchBundles ==
  DirectoryBundles \cup
  { Bundle(<<NamedEntry(<<sAnn, sMarie>>, sLee, "4444444444")>>),
    Bundle(<<NamedEntry(<<sAnn>>, sAnnabel, "5555555555"),
             NamedEntry(<<sAnn>>, sLee, "6666666666")>>),
    Bundle(<<NamedEntry(<<sZed>>, sAnnabel, "7777777777")>>) }

InitEnrich ==
  /\ \E file \in RoleFiles :
       store = [EmptyStore EXCEPT !.PractitionerRole = rolesSynced(file, 1)]
  /\ clock = 1
  /\ pc = "enrich"
  /\ trigger = "startup"
  /\ srcIdx = NumPublishers + 1
  /\ outIdx = 1
  /\ successCount = 0
  /\ failCount = 0
  /\ attempted = <<>>
  /\ synced = {}
  /\ existingRoles = <<>>
  /\ enrichment = NoEnrichment
  /\ raised = FALSE
  /\ response = 0
  /\ fileFaults = 0
  /\ reply = [kind |-> "none"]
  /\ sources = ConfiguredSources
  /\ backend = "mem"
  /\ applied = NothingApplied
  /\ before = store
  /\ contexts = <<>>
  /\ inflight = <<>>
  /\ writeOrder = <<>>
  /\ optumResponse = Undefined

\* a pass; then a further cycle in which no publisher answers, and its pass
NextEnrich ==
  \/ \E b \in MatchBundles : EnrichPass(b)
  \/ EnrichFetchFail
  \/ \E t \in {"cron", "manual"} : StartCycle(t)
  \/ FetchManifestFail

SpecEnrich == InitEnrich /\ [][NextEnrich]_vars

\* ---------------------------------------- properties of the matching passes
\* the entries of the directory's answer (none when it has no entry array)
Entries == IF IsVal(G(optumResponse, "entry")) THEN G(optumResponse, "entry").v ELSE <<>>
\* entry number k is a Practitioner with a name and an NPI
Usable(k) ==
  /\ IsVal(G(Entries[k], "resource"))
  /\ G(G(Entries[k], "resource").v, "resourceType") = Val("Practitioner")
  /\ IsVal(Name0(G(Entries[k], "resource").v))
  /\ IsVal(extractNpi(G(Entries[k], "resource").v))
NpiOfEntry(k) == extractNpi(G(Entries[k], "resource").v)
\* the name of entry number k as the pass compares it
NameOfEntry(k) ==
  ToLowerCase(formatPractitionerName(Name0(G(Entries[k], "resource").v).v))
\* the similarity of role number i of the snapshot and entry number k
Score(i, k) ==
  calculateNameSimilarity(ToLowerCase(RoleDisplay(existingRoles[i]).v), NameOfEntry(k))
\* role number i of the snapshot had no NPI, has a name and scores above 0.6
Acceptable(i, k) ==
  /\ ~IsVal(existingRoles[i].npi)
  /\ IsVal(RoleDisplay(existingRoles[i]))
  /\ AboveThreshold(Score(i, k))
\* the pass left role number i of the snapshot with the NPI of entry number k
CarriesNpiOf(i, k) ==
  /\ Lookup(store.PractitionerRole, existingRoles[i].id).npi = NpiOfEntry(k)
  /\ existingRoles[i].npi # NpiOfEntry(k)
\* the score of role i is higher than that of role j
ScoresHigher(i, j, k) ==
  Score(i, k)[1] * Score(j, k)[2] > Score(j, k)[1] * Score(i, k)[2]

DemoSeeded(role) ==
  /\ role.npi = Val("1234567890")
  /\ IsVal(role.optumData)
  /\ G(role.optumData.v, "source") = Val("optum_demo")
  /\ G(role.optumData.v, "lastUpdated") = Val(clock)
\* C23: when an enrichment run is over in which no entry was matched, be it
\* that the directory could not be reached, answered without entries or
\* answered with entries that match no role, and the store held a role when
\* the run began, exactly one role carries the demonstration payload of the run.
C23_SeededWhenNothingMatched ==
  (/\ pc = "done"
   /\ enrichment.outcome # "none"
   /\ enrichment.enrichedCount = 0
   /\ existingRoles # <<>>)
  => Cardinality({i \in 1..Len(store.PractitionerRole) :
                    DemoSeeded(store.PractitionerRole[i])}) = 1

\* C24: for every role of the store and every named entry of the directory's
\* answer, the similarity of the role's name and the entry's name is the same
\* whichever of the two is passed first.
C24_SimilaritySymmetric ==
  pc = "done" =>
    \A k \in 1..Len(Entries) : \A i \in 1..Len(existingRoles) :
      (Usable(k) /\ IsVal(RoleDisplay(existingRoles[i]))) =>
        calculateNameSimilarity(ToLowerCase(RoleDisplay(existingRoles[i]).v),
                                NameOfEntry(k))
          = calculateNameSimilarity(NameOfEntry(k),
                                    ToLowerCase(RoleDisplay(existingRoles[i]).v))

\* ------------------------------------------------------- repeated upserts
MaxUpserts == 3      \* bulk upserts in one run

\* the batches syncFHIRDataFromSource can hand to the store: none, the file of
\* one publisher, or a file in which an id occurs twice
UpsertBatches(type) ==
  { <<>>,
    mapBatch(type, Feed(1, type), 1),
    mapBatch(type, Feed(2, type), 2),
    mapBatch(type, Feed(1, type) \o Feed(2, type), 1) }

\* a store that holds publisher 1's roles, the first of them enriched
SeededStore ==
  [EmptyStore EXCEPT !.PractitionerRole =
     enrichPractitionerWithOptumData(
       bulkUpsert("PractitionerRole", <<>>,
                  mapBatch("PractitionerRole", Feed(1, "PractitionerRole"), 1), 0),
       1, sampleOptumData(toPractitionerRole(
            mapPractitionerRole(RawPractitionerRole(1, 1), 1), 0), 0), 0)]

\* what a reader of the store can tell apart: how many records a collection
\* holds and what each holds, the updatedAt stamp aside
WithoutStamp(rec) == [f \in (DOMAIN rec) \ {"updatedAt"} |-> rec[f]]
Observable(coll) ==
  [count |-> Len(coll), records |-> {WithoutStamp(coll[i]) : i \in 1..Len(coll)}]
ObservableStore(st) ==
  [Location |-> Observable(st.Location),
   PractitionerRole |-> Observable(st.PractitionerRole),
   Schedule |-> Observable(st.Schedule),
   Slot |-> Observable(st.Slot)]

InitUpsert ==
  /\ store \in {EmptyStore, SeededStore}
  /\ backend \in {"mem", "db"}
  /\ clock = 0
  /\ pc = "idle"
  /\ trigger = "none"
  /\ srcIdx = 1
  /\ outIdx = 1
  /\ successCount = 0
  /\ failCount = 0
  /\ attempted = <<>>
  /\ synced = {}
  /\ existingRoles = <<>>
  /\ enrichment = NoEnrichment
  /\ raised = FALSE
  /\ response = 0
  /\ fileFaults = 0
  /\ reply = [kind |-> "none"]
  /\ sources = ConfiguredSources
  /\ applied = NothingApplied
  /\ before = store
  /\ contexts = <<>>
  /\ inflight = <<>>
  /\ writeOrder = <<>>
  /\ optumResponse = Undefined

\* storage.bulkUpsert<type>(batch) at the next tick of the clock
BulkUpsert(type, batch) ==
  /\ clock < MaxUpserts
  /\ clock' = clock + 1
  /\ store' = [store EXCEPT ![type] =
                 storageBulkUpsert(backend, type, @, batch, clock + 1)]
  /\ applied' = IF applied.runs > 0 /\ applied.type = type /\ applied.batch = batch
                THEN [applied EXCEPT !.runs = @ + 1]
                ELSE [type |-> type, batch |-> batch, runs |-> 1,
                      once |-> ObservableStore(store')]
  /\ UNCHANGED <<syncVars, reply, sources, backend, before, contexts, inflight, writeOrder, optumResponse>>

NextUpsert ==
  \E k \in 1..Len(ResourceTypes) :
    \E batch \in UpsertBatches(ResourceTypes[k]) : BulkUpsert(ResourceTypes[k], batch)

SpecUpsert == InitUpsert /\ [][NextUpsert]_vars

\* C6: once a batch has been applied two or more times in a row, the store
\* holds the same ids with the same content, the updatedAt stamp aside, as
\* it did after the first of these applications; for every resource type,
\* both storages and every store the batch met.
C6_UpsertIdempotent ==
  applied.runs >= 2 => ObservableStore(store) = applied.once
\* publisher 2's roles were upserted over an enriched store and then upserted
\* again one tick later: the records carry the later stamp
C6_Witness ==
  /\ applied.runs = 2
  /\ applied.type = "PractitionerRole"
  /\ applied.batch = mapBatch("PractitionerRole", Feed(2, "PractitionerRole"), 2)
  /\ Ids(store.PractitionerRole) = {1, 2, 3}
  /\ IsVal(Lookup(store.PractitionerRole, 1).npi)
  /\ Lookup(store.PractitionerRole, 2).updatedAt = Val(clock)
  /\ clock >= 2

\* the fields an enrichment pass writes to a role
WrittenByEnrichment == EnrichmentFields \ {"updatedAt"}
\* the bulk upsert of this step wrote its batch
Reingested ==
  /\ clock' = clock + 1
  /\ applied'.type = "PractitionerRole"
  /\ ~(backend = "db" /\ StatementFails("PractitionerRole", applied'.batch))
\* C29: right after a bulk upsert has written a batch of PractitionerRoles,
\* every role of the batch has a null NPI and null enrichment fields in the
\* store, whatever the stored record held before; in both storages.
C29_ReingestedRoleLosesEnrichment ==
  [][Reingested =>
       \A i \in 1..Len(applied'.batch) :
         \A f \in WrittenByEnrichment :
           Lookup(store'.PractitionerRole, applied'.batch[i].id)[f] = Null]_vars
\* the database held role 1 with the NPI and the payload of an enrichment pass,
\* and publisher 1's roles have just been upserted again
C29_Witness ==
  /\ backend = "db"
  /\ applied.runs = 1
  /\ applied.type = "PractitionerRole"
  /\ applied.batch = mapBatch("PractitionerRole", Feed(1, "PractitionerRole"), 1)
  /\ 1 \in Ids(before.PractitionerRole)
  /\ IsVal(Lookup(before.PractitionerRole, 1).npi)
  /\ IsVal(Lookup(before.PractitionerRole, 1).optumData)
  /\ Lookup(store.PractitionerRole, 1).npi = Null
  /\ clock = 1


\* ---------------------------------------------------------------- searches
\* A request or filter object carries only the fields that were sent. Dates
\* are instants counted in days, as Slot.start is.
sDerm == <<4, 5, 18, 13>>
sAetnaLower == <<1, 5, 20, 14, 1>>
sSpanishLower == <<19, 16, 1, 14, 9, 19, 8>>
sZzz == <<26, 26, 26>>
sLeeLower == <<12, 5, 5>>
\* 30 * 24 * 60 * 60 * 1000 ms: the default length of the date window, in days
ThirtyDays == 30

\* a string or array field that is set and truthy
Has(request, f) == f \in DOMAIN request /\ request[f] # <<>>
\* the id a reference object points to once `kind/` is stripped (0: none)
RefId(holder, kind) ==
  IF "reference" \in DOMAIN holder THEN StripPrefix(holder.reference, kind) ELSE 0
\* address?.<field>
AddressField(l, f) == IF IsVal(l.address) THEN G(l.address.v, f) ELSE Undefined

\* --- SmartSchedulerAgent.searchProviders
codingMatches(coding, specLower) ==
  \/ OptLowerIncludes(G(coding, "display"), specLower)
  \/ OptLowerIncludes(G(coding, "code"), specLower)
specMatches(spec, specLower) ==
  IF IsVal(G(spec, "coding"))
  THEN Some(G(spec, "coding").v, LAMBDA coding : codingMatches(coding, specLower))
  ELSE OptLowerIncludes(G(spec, "text"), specLower)
specialtyKeeps(p, specLower) ==
  IF IsVal(p.specialty)
  THEN Some(p.specialty.v, LAMBDA spec : specMatches(spec, specLower))
  ELSE IF IsVal(p.practitioner) /\ "display" \in DOMAIN p.practitioner.v
       THEN OptLowerIncludes(G(p.practitioner.v, "display"), specLower)
       ELSE FALSE
bySpecialty(practitioners, request) ==
  IF Has(request, "specialty")
  THEN Filter(practitioners,
              LAMBDA p : specialtyKeeps(p, ToLowerCase(request.specialty)))
  ELSE practitioners

locationMatches(l, locLower, location) ==
  \/ OptLowerIncludes(l.name, locLower)
  \/ OptLowerIncludes(AddressField(l, "city"), locLower)
  \/ OptLowerIncludes(AddressField(l, "state"), locLower)
  \/ (IsVal(AddressField(l, "postalCode"))
      /\ Includes(AddressField(l, "postalCode").v, location))
  \/ (IsVal(AddressField(l, "line"))
      /\ Some(AddressField(l, "line").v,
              LAMBDA line : Includes(ToLowerCase(line), locLower)))
matchingLocations(locations, request) ==
  IF Has(request, "location")
  THEN Filter(locations,
              LAMBDA l : locationMatches(l, ToLowerCase(request.location),
                                         request.location))
  ELSE locations
locationKeeps(p, matchingLocationIds) ==
  IF IsVal(p.location)
  THEN Some(p.location.v, LAMBDA locRef : RefId(locRef, "Location") \in matchingLocationIds)
  ELSE TRUE
byLocation(practitioners, matching, request) ==
  IF Has(request, "location") /\ matching # <<>>
  THEN Filter(practitioners, LAMBDA p : locationKeeps(p, Ids(matching)))
  ELSE practitioners

acceptedMatches(accepted, ins) ==
  \/ OptLowerIncludes(G(accepted, "type"), ToLowerCase(ins))
  \/ OptLowerIncludes(G(accepted, "name"), ToLowerCase(ins))
insuranceKeeps(p, insurance) ==
  /\ IsVal(p.insuranceAccepted)
  /\ Some(insurance, LAMBDA ins :
            Some(p.insuranceAccepted.v, LAMBDA accepted : acceptedMatches(accepted, ins)))
byInsurance(practitioners, request) ==
  IF Has(request, "insurance")
  THEN Filter(practitioners, LAMBDA p : insuranceKeeps(p, request.insurance))
  ELSE practitioners

spokenMatches(spoken, lang) ==
  \/ OptLowerIncludes(G(spoken, "language"), ToLowerCase(lang))
  \/ OptLowerIncludes(G(spoken, "code"), ToLowerCase(lang))
languagesKeep(p, languages) ==
  /\ IsVal(p.languagesSpoken)
  /\ Some(languages, LAMBDA lang :
            Some(p.languagesSpoken.v, LAMBDA spoken : spokenMatches(spoken, lang)))
byLanguages(practitioners, request) ==
  IF Has(request, "languages")
  THEN Filter(practitioners, LAMBDA p : languagesKeep(p, request.languages))
  ELSE practitioners

\* let filtersApplied
filtersApplied(request) ==
  \/ Has(request, "specialty") \/ Has(request, "location")
  \/ Has(request, "insurance") \/ Has(request, "languages")

\* the practitioners left after the four practitioner filters
filteredPractitioners(st, request) ==
  byLanguages(
    byInsurance(
      byLocation(bySpecialty(st.PractitionerRole, request),
                 matchingLocations(st.Location, request), request),
      request),
    request)

\* slot.start >= startDate && slot.start <= endDate
inWindow(slot, startDate, endDate) ==
  IsVal(slot.start) /\ slot.start.v >= startDate /\ slot.start.v <= endDate
byDates(slots, request, now) ==
  IF "dateFrom" \in DOMAIN request \/ "dateTo" \in DOMAIN request
  THEN Filter(slots, LAMBDA slot :
         inWindow(slot,
                  IF "dateFrom" \in DOMAIN request THEN request.dateFrom ELSE now,
                  IF "dateTo" \in DOMAIN request THEN request.dateTo
                  ELSE now + ThirtyDays))
  ELSE slots
\* slot.appointmentType?.toLowerCase() === request.appointmentType.toLowerCase()
byAppointmentType(slots, request) ==
  IF Has(request, "appointmentType")
  THEN Filter(slots, LAMBDA slot :
         /\ IsVal(slot.appointmentType)
         /\ ToLowerCase(slot.appointmentType.v) = ToLowerCase(request.appointmentType))
  ELSE slots
byStatus(slots, freeOnly) ==
  IF freeOnly THEN Filter(slots, LAMBDA slot : slot.status = Val("free")) ELSE slots

\* the slots left after the availability, date and appointment type filters
filteredSlots(st, request, now) ==
  byAppointmentType(
    byDates(byStatus(st.Slot, "availableOnly" \in DOMAIN request
                              /\ request.availableOnly = TRUE),
            request, now),
    request)


\* the ids of the PractitionerRoles a Schedule's actor list references
practitionerIdsOf(schedule) ==
  IF IsVal(schedule.actor)
  THEN {schedule.actor.v[i].reference.id :
          i \in {j \in 1..Len(schedule.actor.v) :
                   /\ "reference" \in DOMAIN schedule.actor.v[j]
                   /\ StartsWith(schedule.actor.v[j].reference, "PractitionerRole")}}
  ELSE {}

\* a closure that takes the schedules of every practitioner, filtered or not
anyScheduleIds(schedules, filteredPractitionerIds) ==
  {schedules[i].id : i \in {j \in 1..Len(schedules) :
                              practitionerIdsOf(schedules[j]) # {}}}
\* relevantScheduleIds: the schedules of the practitioners that are left
relevantScheduleIds(schedules, filteredPractitionerIds) ==
  {schedules[i].id :
     i \in {j \in 1..Len(schedules) :
              practitionerIdsOf(schedules[j]) \cap filteredPractitionerIds # {}}}

\* slot.schedule.reference.replace('Schedule/', '') is a relevant schedule
inRelevantSchedule(slot, relevant) ==
  /\ IsVal(slot.schedule)
  /\ RefId(slot.schedule.v, "Schedule") \in relevant

\* the referential closure of searchProviders
closeOver(slots, practitioners, relevant, narrowed) ==
  IF narrowed /\ relevant # {}
  THEN Filter(slots, LAMBDA slot : inRelevantSchedule(slot, relevant))
  ELSE IF narrowed /\ practitioners # <<>> /\ relevant = {} THEN <<>>
  ELSE slots

agentResult(st, request, practitioners, now) ==
  [practitioners |-> practitioners,
   locations |-> matchingLocations(st.Location, request),
   availableSlots |->
     closeOver(filteredSlots(st, request, now), practitioners,
               relevantScheduleIds(st.Schedule, Ids(practitioners)),
               filtersApplied(request))]

\* SmartSchedulerAgent.searchProviders(request).data
agentSearchProviders(st, request, now) ==
  agentResult(st, request, filteredPractitioners(st, request), now)

\* --- POST /api/search
\* searchFiltersSchema.parse(body): unknown keys are stripped, availableOnly
\* defaults to false
SchemaKeys == {"searchQuery", "specialty", "location", "dateFrom", "dateTo",
               "availableOnly"}
\* searchFiltersSchema.parse(body) throws a ZodError: a key of the schema
\* carries a value of another type than the schema's (the keys a body lists
\* under illTyped); a key the schema does not know is stripped unread
parseThrows(body) ==
  "illTyped" \in DOMAIN body /\ body.illTyped \cap SchemaKeys # {}
parseFilters(body) ==
  [f \in ((DOMAIN body) \cap SchemaKeys) \cup {"availableOnly"} |->
     IF f \in DOMAIN body THEN body[f] ELSE FALSE]

restQueryKeeps(p, query) ==
  /\ IsVal(p.practitioner)
  /\ OptLowerIncludes(G(p.practitioner.v, "display"), query)
restBySearchQuery(practitioners, filters) ==
  IF Has(filters, "searchQuery")
  THEN Filter(practitioners,
              LAMBDA p : restQueryKeeps(p, ToLowerCase(filters.searchQuery)))
  ELSE practitioners
restCodingMatches(coding, specialty) ==
  \/ OptLowerIncludes(G(coding, "display"), ToLowerCase(specialty))
  \/ G(coding, "code") = Val(specialty)
restSpecialtyKeeps(p, specialty) ==
  /\ IsVal(p.specialty)
  /\ Some(p.specialty.v, LAMBDA spec :
       /\ IsVal(G(spec, "coding"))
       /\ Some(G(spec, "coding").v,
               LAMBDA coding : restCodingMatches(coding, specialty)))
restBySpecialty(practitioners, filters) ==
  IF Has(filters, "specialty")
  THEN Filter(practitioners, LAMBDA p : restSpecialtyKeeps(p, filters.specialty))
  ELSE practitioners
restSpokenMatches(spoken, lang) ==
  \/ OptLowerIncludes(G(spoken, "language"), ToLowerCase(lang))
  \/ (IsVal(G(spoken, "code"))
      /\ ToLowerCase(G(spoken, "code").v) = ToLowerCase(lang))
restByLanguages(practitioners, filters) ==
  IF Has(filters, "languages")
  THEN Filter(practitioners, LAMBDA p :
         /\ IsVal(p.languagesSpoken)
         /\ Some(filters.languages, LAMBDA lang :
              Some(p.languagesSpoken.v, LAMBDA spoken : restSpokenMatches(spoken, lang))))
  ELSE practitioners
restAcceptedMatches(accepted, ins) ==
  \/ OptLowerIncludes(G(accepted, "type"), ToLowerCase(ins))
  \/ G(accepted, "accepted") = Val(TRUE)
restByInsurance(practitioners, filters) ==
  IF Has(filters, "insurance")
  THEN Filter(practitioners, LAMBDA p :
         /\ IsVal(p.insuranceAccepted)
         /\ Some(filters.insurance, LAMBDA ins :
              Some(p.insuranceAccepted.v,
                   LAMBDA accepted : restAcceptedMatches(accepted, ins))))
  ELSE practitioners

\* l.name.toLowerCase().includes(q)
restNameIncludes(l, q) == Includes(ToLowerCase(l.name.v), q)
restLocationMatches(l, q) ==
  \/ restNameIncludes(l, q)
  \/ OptLowerIncludes(AddressField(l, "city"), q)
  \/ OptLowerIncludes(AddressField(l, "state"), q)
restLocationsByQuery(locations, filters) ==
  IF Has(filters, "searchQuery")
  THEN Filter(locations,
              LAMBDA l : restNameIncludes(l, ToLowerCase(filters.searchQuery)))
  ELSE locations
restLocations(locations, filters) ==
  IF Has(filters, "location")
  THEN Filter(restLocationsByQuery(locations, filters),
              LAMBDA l : restLocationMatches(l, ToLowerCase(filters.location)))
  ELSE restLocationsByQuery(locations, filters)
\* a TypeError: toLowerCase() of a missing name, or `'state' in address` of
\* a missing address once neither the name nor the city matched
restThrows(locations, filters) ==
  \/ /\ Has(filters, "searchQuery") \/ Has(filters, "location")
     /\ Some(locations, LAMBDA l : ~IsVal(l.name))
  \/ /\ Has(filters, "location")
     /\ Some(restLocationsByQuery(locations, filters), LAMBDA l :
          /\ ~IsVal(l.address)
          /\ ~restNameIncludes(l, ToLowerCase(filters.location)))

\* MemStorage.searchProviders(filters)
searchProviders(st, filters, now) ==
  [practitioners |->
     restByInsurance(
       restByLanguages(
         restBySpecialty(restBySearchQuery(st.PractitionerRole, filters), filters),
         filters),
       filters),
   locations |-> restLocations(st.Location, filters),
   availableSlots |->
     byDates(byStatus(byAppointmentType(st.Slot, filters), filters.availableOnly),
             filters, now)]

\* the reply of POST /api/search: the catch answers 400 whether parse() or
\* storage.searchProviders() threw; `reached` tells which
searchRoute(st, body, now) ==
  IF parseThrows(body) THEN [status |-> 400, reached |-> FALSE]
  ELSE IF restThrows(st.Location, parseFilters(body))
  THEN [status |-> 400, reached |-> TRUE]
  ELSE searchProviders(st, parseFilters(body), now)


\* --- the bulk republish endpoints
\* JSON.parse(JSON.stringify(record)): a property whose value is undefined is
\* left out, everything else comes back (a Date as the instant it names)
JsonRoundTrip(record) ==
  [f \in {g \in DOMAIN record : g = "id" \/ record[g] # Undefined} |-> record[f]]
\* GET /fhir/data/<type>.ndjson: the lines of the body, each parsed back
ndjsonRoute(st, type) == [i \in 1..Len(st[type]) |-> JsonRoundTrip(st[type][i])]

NdjsonFile(type) ==
  CASE type = "Location" -> "/fhir/data/locations.ndjson"
    [] type = "PractitionerRole" -> "/fhir/data/practitioners.ndjson"
    [] type = "Schedule" -> "/fhir/data/schedules.ndjson"
    [] type = "Slot" -> "/fhir/data/slots.ndjson"
\* GET /fhir/$bulk-publish: the manifest (urls without the base URL)
bulkPublishRoute(st, now) ==
  [transactionTime |-> now,
   requiresAccessToken |-> FALSE,
   output |-> [k \in 1..Len(ResourceTypes) |->
                 [type |-> ResourceTypes[k],
                  url |-> NdjsonFile(ResourceTypes[k]),
                  count |-> Len(st[ResourceTypes[k]])]],
   error |-> <<>>]

\* ------------------------------------------------------ booking lookups
\* MemStorage.getSlot(id): this.slots.get(id)
getSlot(st, slotId) ==
  IF slotId \in Ids(st.Slot) THEN Val(Lookup(st.Slot, slotId)) ELSE Undefined

\* the loop over slot.extension: the last extension with this url sets the
\* variable to its value property, and without one it keeps its initial value
lastExtensionValue(slot, url, property, initial) ==
  IF ~IsVal(slot.extension) THEN initial
  ELSE LET hits == {i \in 1..Len(slot.extension.v) :
                      G(slot.extension.v[i], "url") = Val(url)}
       IN IF hits = {} THEN initial
          ELSE G(slot.extension.v[CHOOSE i \in hits : \A j \in hits : j <= i],
                 property)

\* GET /api/booking/:slotId: bookingLink and bookingPhone start as null; the
\* body is what res.json() sends
bookingRoute(st, slotId) ==
  IF ~IsVal(getSlot(st, slotId))
  THEN [status |-> 404, body |-> [message |-> "Slot not found"]]
  ELSE [status |-> 200,
        body |-> JsonRoundTrip(
          [slotId |-> Val(slotId),
           bookingLink |-> lastExtensionValue(getSlot(st, slotId).v,
                                              BOOKING_DEEP_LINK, "valueUrl", Null),
           bookingPhone |-> lastExtensionValue(getSlot(st, slotId).v,
                                               BOOKING_PHONE, "valueString", Null),
           slot |-> Val(JsonRoundTrip(getSlot(st, slotId).v))])]

\* getOrCreateContext(contextId)
NewContext(contextId) ==
  [id |-> contextId, state |-> "IDLE", selectedProviderId |-> Undefined,
   selectedSlotId |-> Undefined, bookingInfo |-> Undefined]
getOrCreateContext(ctxs, contextId) ==
  IF contextId \in Ids(ctxs) THEN ctxs ELSE Append(ctxs, NewContext(contextId))

\* `bookingLink ? ... : bookingPhone ? ... : ...`
Truthy(o) == IsVal(o) /\ o.v # <<>>
instructions(bookingLink, bookingPhone) ==
  IF Truthy(bookingLink) THEN [how |-> "visit", what |-> bookingLink]
  ELSE IF Truthy(bookingPhone) THEN [how |-> "call", what |-> bookingPhone]
  ELSE [how |-> "contact", what |-> Undefined]

\* getBookingInfo once the slot was found; bookingLink and bookingPhone start
\* as undefined
bookingFound(ctxs, slot, slotId, contextId, bookingLink, bookingPhone) ==
  [result |-> [success |-> TRUE, message |-> "Booking information retrieved successfully",
               data |-> [slotId |-> slotId, bookingLink |-> bookingLink,
                         bookingPhone |-> bookingPhone, slot |-> slot,
                         instructions |-> instructions(bookingLink, bookingPhone)]],
   contexts |->
     IF IsVal(contextId)
     THEN MapSet(getOrCreateContext(ctxs, contextId.v),
                 [Lookup(getOrCreateContext(ctxs, contextId.v), contextId.v) EXCEPT
                    !.selectedSlotId = Val(slotId),
                    !.bookingInfo = Val([slotId |-> slotId, bookingLink |-> bookingLink,
                                         bookingPhone |-> bookingPhone]),
                    !.state = "BOOKING_INFO_READY"])
     ELSE ctxs]

\* a lookup that notes the selected slot in the context before it looks it up
getBookingInfoNoting(st, ctxs, slotId, contextId) ==
  IF ~IsVal(getSlot(st, slotId))
  THEN [result |-> [success |-> FALSE, message |-> "Slot not found"],
        contexts |-> bookingFound(ctxs, Undefined, slotId, contextId,
                                  Undefined, Undefined).contexts]
  ELSE bookingFound(ctxs, getSlot(st, slotId).v, slotId, contextId,
                    lastExtensionValue(getSlot(st, slotId).v,
                                       BOOKING_DEEP_LINK, "valueUrl", Undefined),
                    lastExtensionValue(getSlot(st, slotId).v,
                                       BOOKING_PHONE, "valueString", Undefined))
\* SmartSchedulerAgent.getBookingInfo({slotId}, contextId): the result and the
\* contexts it leaves
getBookingInfo(st, ctxs, slotId, contextId) ==
  IF ~IsVal(getSlot(st, slotId))
  THEN [result |-> [success |-> FALSE, message |-> "Slot not found"],
        contexts |-> ctxs]
  ELSE bookingFound(ctxs, getSlot(st, slotId).v, slotId, contextId,
                    lastExtensionValue(getSlot(st, slotId).v,
                                       BOOKING_DEEP_LINK, "valueUrl", Undefined),
                    lastExtensionValue(getSlot(st, slotId).v,
                                       BOOKING_PHONE, "valueString", Undefined))

\* ------------------------------------------------- provider availability
\* MemStorage.getSlotsByDateRange(startDate, endDate)
getSlotsByDateRange(st, startDate, endDate) ==
  Filter(st.Slot, LAMBDA slot : inWindow(slot, startDate, endDate))
\* `start ? new Date(start) : new Date()` and the default end, 30 days on
startOf(range, now) == IF "start" \in DOMAIN range THEN range.start ELSE now
endOf(range, now) == IF "end" \in DOMAIN range THEN range.end ELSE now + ThirtyDays

\* GET /api/availability/:providerId: the slots of the window whose schedule
\* reference string includes the provider id (ids are single characters, so
\* "Schedule/<id>" includes it exactly when <id> is the provider id)
availabilityRoute(st, providerId, range, now) ==
  Filter(getSlotsByDateRange(st, startOf(range, now), endOf(range, now)),
         LAMBDA slot : /\ IsVal(slot.schedule)
                       /\ "reference" \in DOMAIN slot.schedule.v
                       /\ slot.schedule.v.reference.id = providerId)

\* the schedules with an actor reference equal to "PractitionerRole/<providerId>"
providerScheduleIds(schedules, providerId) ==
  {schedules[j].id : j \in {k \in 1..Len(schedules) :
     /\ IsVal(schedules[k].actor)
     /\ Some(schedules[k].actor.v, LAMBDA actorRef :
          G(actorRef, "reference") = Ref("PractitionerRole", providerId))}}
providerSlots(st, providerId, range, now) ==
  Filter(getSlotsByDateRange(st, startOf(range, now), endOf(range, now)),
         LAMBDA slot : /\ IsVal(slot.schedule)
                       /\ RefId(slot.schedule.v, "Schedule")
                            \in providerScheduleIds(st.Schedule, providerId))
\* SmartSchedulerAgent.getAvailability(request, contextId): the result and the
\* contexts it leaves
getAvailability(st, ctxs, providerId, range, contextId, now) ==
  [result |->
     [success |-> TRUE,
      data |-> [providerId |-> providerId,
                slots |-> providerSlots(st, providerId, range, now),
                totalSlots |-> Len(providerSlots(st, providerId, range, now)),
                availableSlots |->
                  Len(byStatus(providerSlots(st, providerId, range, now), TRUE))]],
   contexts |->
     IF IsVal(contextId)
     THEN MapSet(getOrCreateContext(ctxs, contextId.v),
                 [Lookup(getOrCreateContext(ctxs, contextId.v), contextId.v) EXCEPT
                    !.selectedProviderId = Val(providerId),
                    !.state = "RESULTS_READY"])
     ELSE ctxs]

\* ------------------------------------------------- requests between syncs
QueryCycles == 1     \* sync cycles before the requests of one run

\* the search requests the model sends, to the agent and to POST /api/search
Requests ==
  { [specialty |-> sDerm],
    [specialty |-> sCardiology, availableOnly |-> TRUE],
    [specialty |-> sZzz],
    [location |-> sBoston],
    [location |-> sZzz],
    [insurance |-> <<sAetnaLower>>],
    [languages |-> <<sSpanishLower>>, availableOnly |-> TRUE],
    [availableOnly |-> FALSE],
    [searchQuery |-> sLeeLower, dateFrom |-> 2],
    [specialty |-> sDerm, dateFrom |-> 1, dateTo |-> 2],
    [specialty |-> sCardiology, location |-> sNewYork] }

\* the bodies POST /api/search is sent: the requests, and bodies with a
\* value of the wrong type under a key of the schema or under another key
Bodies ==
  Requests \cup
  { [specialty |-> sDerm, availableOnly |-> TRUE, illTyped |-> {"availableOnly"}],
    [location |-> sBoston, dateFrom |-> 1, illTyped |-> {"dateFrom"}],
    [specialty |-> sDerm, insurance |-> <<sAetnaLower>>, illTyped |-> {"insurance"}] }

\* the search_providers skill of the agent is asked
AgentSearch(request) ==
  /\ reply' = [kind |-> "search", via |-> "agent", request |-> request,
               result |-> agentSearchProviders(store, request, clock)]
  /\ UNCHANGED <<store, clock, syncVars, sources, backend, applied, before, contexts,
                 inflight, writeOrder, optumResponse>>

\* POST /api/search is asked
RestSearch(body) ==
  /\ reply' = [kind |-> "search", via |-> "rest", request |-> body,
               result |-> searchRoute(store, body, clock)]
  /\ UNCHANGED <<store, clock, syncVars, sources, backend, applied, before, contexts,
                 inflight, writeOrder, optumResponse>>

\* GET /fhir/data/<type>.ndjson
ExportNdjson(type) ==
  /\ reply' = [kind |-> "ndjson", type |-> type, lines |-> ndjsonRoute(store, type)]
  /\ UNCHANGED <<store, clock, syncVars, sources, backend, applied, before, contexts,
                 inflight, writeOrder, optumResponse>>

\* GET /fhir/$bulk-publish
BulkPublish ==
  /\ reply' = [kind |-> "manifest", manifest |-> bulkPublishRoute(store, clock)]
  /\ UNCHANGED <<store, clock, syncVars, sources, backend, applied, before, contexts,
                 inflight, writeOrder, optumResponse>>

\* a lookup that reserves the slot it is asked about
RestBookingReserving(slotId) ==
  /\ reply' = [kind |-> "booking", via |-> "rest", slotId |-> slotId,
               contextId |-> Undefined, result |-> bookingRoute(store, slotId)]
  /\ store' = [store EXCEPT !.Slot =
                 [i \in 1..Len(@) |-> IF @[i].id = slotId
                                      THEN [@[i] EXCEPT !.status = Val("busy")]
                                      ELSE @[i]]]
  /\ UNCHANGED <<clock, syncVars, sources, backend, applied, before, contexts,
                 inflight, writeOrder, optumResponse>>
\* GET /api/booking/:slotId
RestBooking(slotId) ==
  /\ reply' = [kind |-> "booking", via |-> "rest", slotId |-> slotId,
               contextId |-> Undefined, result |-> bookingRoute(store, slotId)]
  /\ UNCHANGED <<store, clock, syncVars, sources, backend, applied, before, contexts,
                 inflight, writeOrder, optumResponse>>

\* the get_booking skill of the agent is asked, with or without a context id
AgentBooking(slotId, contextId) ==
  /\ reply' = [kind |-> "booking", via |-> "agent", slotId |-> slotId,
               contextId |-> contextId,
               result |-> getBookingInfo(store, contexts, slotId, contextId).result]
  /\ contexts' = getBookingInfo(store, contexts, slotId, contextId).contexts
  /\ UNCHANGED <<store, clock, syncVars, sources, backend, applied, before, inflight, writeOrder, optumResponse>>

\* GET /api/availability/:providerId
RestAvailability(providerId, range) ==
  /\ reply' = [kind |-> "availability", via |-> "rest", providerId |-> providerId,
               range |-> range, contextId |-> Undefined,
               result |-> availabilityRoute(store, providerId, range, clock)]
  /\ UNCHANGED <<store, clock, syncVars, sources, backend, applied, before, contexts,
                 inflight, writeOrder, optumResponse>>

\* the get_availability skill of the agent is asked
AgentAvailability(providerId, range, contextId) ==
  /\ reply' = [kind |-> "availability", via |-> "agent", providerId |-> providerId,
               range |-> range, contextId |-> contextId,
               result |-> getAvailability(store, contexts, providerId, range,
                                          contextId, clock).result]
  /\ contexts' = getAvailability(store, contexts, providerId, range,
                                 contextId, clock).contexts
  /\ UNCHANGED <<store, clock, syncVars, sources, backend, applied, before, inflight, writeOrder, optumResponse>>

\* the slot ids and provider ids the lookups ask for (the largest slot id is
\* one no publisher serves), the windows and the context ids they come with
SlotIdsAsked == 1..(NumPublishers + 2)
ProviderIdsAsked == {1, 2}
RangesAsked == {[end |-> 2], [start |-> 1, end |-> 2]}
ContextIdsAsked == {Undefined, Val("c1")}

\* A request leaves the store alone, so a run is followed up to its first
\* request and the requests after it: what the sync does after a request is
\* what it does without it.
NoRequestYet == reply.kind = "none"
NextQuery ==
  \/ \E t \in {"startup", "cron", "manual"} :
       NoRequestYet /\ clock < QueryCycles /\ StartCycle(t)
  \/ NoRequestYet /\ FetchManifestOk
  \/ NoRequestYet /\ FetchManifestFail
  \/ NoRequestYet /\ SyncFileOk
  \/ NoRequestYet /\ SyncFileFail
  \/ NoRequestYet /\ EnrichFetchFail
  \/ \E b \in DirectoryBundles : NoRequestYet /\ EnrichPass(b)
  \/ \E request \in Requests : AgentSearch(request)
  \/ \E body \in Bodies : RestSearch(body)
  \/ \E k \in 1..Len(ResourceTypes) : ExportNdjson(ResourceTypes[k])
  \/ BulkPublish
  \/ \E slotId \in SlotIdsAsked : RestBooking(slotId)
  \/ \E slotId \in SlotIdsAsked : AgentBooking(slotId, Undefined)
  \/ \E providerId \in ProviderIdsAsked : \E range \in RangesAsked :
       RestAvailability(providerId, range)
  \/ \E providerId \in ProviderIdsAsked : \E range \in RangesAsked :
       AgentAvailability(providerId, range, Undefined)

SpecQuery == InitSync /\ [][NextQuery]_vars

\* ------------------------------------------ overlapping sync cycles
\* syncFHIRData is an async function called by the startup code, by the cron
\* tick and by POST /api/sync; nothing records that a call is under way.
\* Each call is a record of its own locals; the store is shared.
MaxInFlight == 2     \* calls of syncFHIRData under way together
MaxTriggers == 2     \* calls of syncFHIRData in one run
OverlapPublishers == 1 \* publishers configured when calls overlap

\* the locals of a call of syncFHIRData started at tick now by trigger t
NewCycle(t, now) ==
  [started |-> now, trigger |-> t, pc |-> LoopAt(1), srcIdx |-> 1, outIdx |-> 1,
   fileFaults |-> 0]

\* the locals of call c once the file at outIdx is over (see NextFile)
afterFile(c) ==
  IF c.outIdx < Len(ManifestTypes(sources[c.srcIdx]))
  THEN [c EXCEPT !.outIdx = c.outIdx + 1]
  ELSE [c EXCEPT !.outIdx = 1, !.srcIdx = c.srcIdx + 1,
                 !.pc = LoopAt(c.srcIdx + 1)]

\* the calls under way once call number i has returned
Returned(i) == [k \in 1..(Len(inflight) - 1) |->
                  IF k < i THEN inflight[k] ELSE inflight[k + 1]]

\* the files that failed in the calls under way
FaultsUnderWay ==
  LET f[k \in 0..Len(inflight)] ==
        IF k = 0 THEN 0 ELSE f[k - 1] + inflight[k].fileFaults
  IN f[Len(inflight)]

\* the last three writers once the call started at tick s has written
Noted(s) == IF Len(writeOrder) < 3 THEN Append(writeOrder, s)
            ELSE Append(Tail(writeOrder), s)

InitOverlap ==
  /\ store = EmptyStore
  /\ clock = 0
  /\ pc = "idle"
  /\ trigger = "none"
  /\ srcIdx = 1
  /\ outIdx = 1
  /\ successCount = 0
  /\ failCount = 0
  /\ attempted = <<>>
  /\ synced = {}
  /\ existingRoles = <<>>
  /\ enrichment = NoEnrichment
  /\ raised = FALSE
  /\ response = 0
  /\ fileFaults = 0
  /\ reply = [kind |-> "none"]
  /\ sources = SubSeq(ConfiguredSources, 1, OverlapPublishers)
  /\ backend = "mem"
  /\ applied = NothingApplied
  /\ before = EmptyStore
  /\ contexts = <<>>
  /\ inflight = <<>>
  /\ writeOrder = <<>>
  /\ optumResponse = Undefined

\* what a call leaves alone: the single-cycle bookkeeping and the requests
OverlapFrame ==
  UNCHANGED <<pc, trigger, srcIdx, outIdx, successCount, failCount, attempted,
              synced, existingRoles, enrichment, raised, response, fileFaults,
              reply, sources, backend, applied, before, contexts>>

\* a trigger that is dropped while a call of syncFHIRData is under way
TriggerGuarded(t) ==
  /\ clock < MaxTriggers
  /\ (t = "startup") = (clock = 0)
  /\ clock' = clock + 1
  /\ inflight' = IF inflight = <<>> THEN <<NewCycle(t, clock')>> ELSE inflight
  /\ UNCHANGED <<store, writeOrder, optumResponse>>
  /\ OverlapFrame
\* the startup code, the cron tick or POST /api/sync calls syncFHIRData
Trigger(t) ==
  /\ clock < MaxTriggers
  /\ Len(inflight) < MaxInFlight
  /\ (t = "startup") = (clock = 0)
  /\ clock' = clock + 1
  /\ inflight' = Append(inflight, NewCycle(t, clock'))
  /\ UNCHANGED <<store, writeOrder, optumResponse>>
  /\ OverlapFrame

\* call number i: the manifest of its current publisher arrives
CycleManifestOk(i) ==
  /\ inflight[i].pc = "source"
  /\ inflight' = [inflight EXCEPT ![i].pc = "file", ![i].outIdx = 1]
  /\ UNCHANGED <<store, clock, writeOrder, optumResponse>>
  /\ OverlapFrame

\* call number i: the manifest request fails; the loop goes on
CycleManifestFail(i) ==
  /\ inflight[i].pc = "source"
  /\ inflight' = [inflight EXCEPT
                    ![i].srcIdx = NextAfterFailure(@),
                    ![i].pc = LoopAt(NextAfterFailure(inflight[i].srcIdx))]
  /\ UNCHANGED <<store, clock, writeOrder, optumResponse>>
  /\ OverlapFrame

\* an upsert that inserts the new ids and leaves the stored ones as they are
CycleFileOkKeepingStored(i) ==
  /\ inflight[i].pc = "file"
  /\ LET p == sources[inflight[i].srcIdx]
         type == ManifestTypes(p)[inflight[i].outIdx]
         batch == mapBatch(type, Feed(p, type), p)
         fresh == {k \in 1..Len(batch) : batch[k].id \notin Ids(store[type])}
     IN store' = [store EXCEPT ![type] =
                    bulkUpsert(type, @,
                      [k \in 1..Cardinality(fresh) |->
                         batch[CHOOSE j \in fresh :
                                 Cardinality({h \in fresh : h < j}) = k - 1]],
                      clock)]
  /\ inflight' = [inflight EXCEPT ![i] = afterFile(@)]
  /\ writeOrder' = Noted(inflight[i].started)
  /\ UNCHANGED <<clock, optumResponse>>
  /\ OverlapFrame
\* call number i: one NDJSON file is fetched, parsed, mapped and upserted
CycleFileOk(i) ==
  /\ inflight[i].pc = "file"
  /\ LET p == sources[inflight[i].srcIdx]
         type == ManifestTypes(p)[inflight[i].outIdx]
     IN store' = [store EXCEPT ![type] =
                    bulkUpsert(type, @, mapBatch(type, Feed(p, type), p), clock)]
  /\ inflight' = [inflight EXCEPT ![i] = afterFile(@)]
  /\ writeOrder' = Noted(inflight[i].started)
  /\ UNCHANGED <<clock, optumResponse>>
  /\ OverlapFrame

\* call number i: one NDJSON file fails to fetch or to parse
CycleFileFail(i) ==
  /\ inflight[i].pc = "file"
  /\ FaultsUnderWay < MaxFileFaults
  /\ inflight' = [inflight EXCEPT
                    ![i] = afterFile([@ EXCEPT !.fileFaults = @ + 1])]
  /\ UNCHANGED <<store, clock, writeOrder, optumResponse>>
  /\ OverlapFrame

\* call number i: the directory request fails; the call returns
CycleEnrichFail(i) ==
  /\ inflight[i].pc = "enrich"
  /\ optumResponse' = Undefined
  /\ inflight' = Returned(i)
  /\ UNCHANGED <<store, clock, writeOrder>>
  /\ OverlapFrame

\* call number i: the directory answers with optumBundle; the call returns
CycleEnrich(i, optumBundle) ==
  /\ inflight[i].pc = "enrich"
  /\ optumResponse' = optumBundle
  /\ \E r \in {enrichWithOptumData(store.PractitionerRole, store.PractitionerRole,
                                    optumBundle, clock)} :
       store' = [store EXCEPT !.PractitionerRole = r.roles]
  /\ inflight' = Returned(i)
  /\ UNCHANGED <<clock, writeOrder>>
  /\ OverlapFrame

NextOverlap ==
  \/ \E t \in {"startup", "cron", "manual"} : Trigger(t)
  \/ \E i \in DOMAIN inflight : CycleManifestOk(i)
  \/ \E i \in DOMAIN inflight : CycleManifestFail(i)
  \/ \E i \in DOMAIN inflight : CycleFileOk(i)
  \/ \E i \in DOMAIN inflight : CycleFileFail(i)
  \/ \E i \in DOMAIN inflight : CycleEnrichFail(i)
  \/ \E i \in DOMAIN inflight : \E b \in DirectoryBundles : CycleEnrich(i, b)

SpecOverlap == InitOverlap /\ [][NextOverlap]_vars

\* --------------------------------------- properties of overlapping cycles
\* a trigger can be taken: the run is not over and the model's bound on the
\* calls under way is not reached
TriggerInBounds == clock < MaxTriggers /\ Len(inflight) < MaxInFlight

\* C19: while a call of syncFHIRData is under way a cron tick and a manual
\* request can both be taken, and taking one starts a further call then and
\* there, at its first publisher, next to the calls already under way, which
\* stay where they were: the trigger is neither dropped nor held back.
C19_TriggerStartsSecondCycle ==
  /\ [](inflight # <<>> /\ TriggerInBounds
          => ENABLED Trigger("cron") /\ ENABLED Trigger("manual"))
  /\ [][clock' # clock /\ inflight # <<>>
          => /\ Len(inflight') = Len(inflight) + 1
             /\ \A k \in DOMAIN inflight : inflight'[k] = inflight[k]
             /\ inflight'[Len(inflight')].started = clock'
             /\ inflight'[Len(inflight')].pc = "source"]_vars
\* two calls are under way, and of the last three bulk upserts the first and
\* the third were made by one of them and the second by the other
C19_Witness ==
  /\ Len(inflight) = 2
  /\ Len(writeOrder) = 3
  /\ writeOrder[1] = writeOrder[3]
  /\ writeOrder[1] # writeOrder[2]
  /\ {writeOrder[1], writeOrder[2]} = {inflight[1].started, inflight[2].started}

\* ------------------------------------------ lookups in a conversation
\* the store once the four files of publisher p have been synced into st
publisherSynced(st, p, now) ==
  [type \in DOMAIN st |->
     bulkUpsert(type, st[type], mapBatch(type, Feed(p, type), p), now)]
\* the stores the lookups are asked against: empty, and after a cycle in
\* which one publisher, or two, delivered all their files
LookupStores ==
  { EmptyStore,
    publisherSynced(EmptyStore, 1, 1),
    publisherSynced(EmptyStore, NumPublishers, 1),
    publisherSynced(publisherSynced(EmptyStore, 2, 1), 1, 1) }

InitLookup ==
  /\ store \in LookupStores
  /\ clock = 1
  /\ pc = "done"
  /\ trigger = "startup"
  /\ srcIdx = 1
  /\ outIdx = 1
  /\ successCount = 0
  /\ failCount = 0
  /\ attempted = <<>>
  /\ synced = {}
  /\ existingRoles = <<>>
  /\ enrichment = NoEnrichment
  /\ raised = FALSE
  /\ response = 0
  /\ fileFaults = 0
  /\ reply = [kind |-> "none"]
  /\ sources = ConfiguredSources
  /\ backend = "mem"
  /\ applied = NothingApplied
  /\ before = EmptyStore
  /\ contexts = <<>>
  /\ inflight = <<>>
  /\ writeOrder = <<>>
  /\ optumResponse = Undefined

NextLookup ==
  \/ \E slotId \in SlotIdsAsked : RestBooking(slotId)
  \/ \E slotId \in SlotIdsAsked : \E contextId \in ContextIdsAsked :
       AgentBooking(slotId, contextId)
  \/ \E providerId \in ProviderIdsAsked : \E range \in RangesAsked :
       RestAvailability(providerId, range)
  \/ \E providerId \in ProviderIdsAsked : \E range \in RangesAsked :
       \E contextId \in ContextIdsAsked :
         AgentAvailability(providerId, range, contextId)

SpecLookup == InitLookup /\ [][NextLookup]_vars

\* ------------------------- overlapping cycles whose fetches all succeed
\* All configured publishers, two calls of syncFHIRData, and every manifest
\* and file request answered.
InitAllFetched ==
  /\ store = EmptyStore
  /\ clock = 0
  /\ pc = "idle"
  /\ trigger = "none"
  /\ srcIdx = 1
  /\ outIdx = 1
  /\ successCount = 0
  /\ failCount = 0
  /\ attempted = <<>>
  /\ synced = {}
  /\ existingRoles = <<>>
  /\ enrichment = NoEnrichment
  /\ raised = FALSE
  /\ response = 0
  /\ fileFaults = 0
  /\ reply = [kind |-> "none"]
  /\ sources = ConfiguredSources
  /\ backend = "mem"
  /\ applied = NothingApplied
  /\ before = EmptyStore
  /\ contexts = <<>>
  /\ inflight = <<>>
  /\ writeOrder = <<>>
  /\ optumResponse = Undefined

NextAllFetched ==
  \/ \E t \in {"startup", "cron", "manual"} : Trigger(t)
  \/ \E i \in DOMAIN inflight : CycleManifestOk(i)
  \/ \E i \in DOMAIN inflight : CycleFileOk(i)
  \/ \E i \in DOMAIN inflight : CycleEnrichFail(i)
  \/ \E i \in DOMAIN inflight : \E b \in DirectoryBundles : CycleEnrich(i, b)

SpecAllFetched == InitAllFetched /\ [][NextAllFetched]_vars

RECURSIVE soloSync(_, _)
\* the store after one call of syncFHIRData that runs alone from publisher
\* number i on and is served every file
soloSync(st, i) ==
  IF i > Len(sources) THEN st
  ELSE soloSync(publisherSynced(st, sources[i], 0), i + 1)
\* what the sync wrote of a record: everything but the stamp and the fields
\* of the enrichment
Ingested(rec) == [f \in (DOMAIN rec) \ EnrichmentFields |-> rec[f]]
IngestedStore(st) ==
  [type \in DOMAIN st |-> [i \in 1..Len(st[type]) |-> Ingested(st[type][i])]]

\* C28: when the calls of syncFHIRData have all returned, whether they ran
\* one after the other or overlapped, the store holds for every id the
\* content and the publisherUrl that one call running alone leaves: for an id
\* that several publishers supply, those of the last of them in the list.
C28_OverlapLeavesSoloContent ==
  (clock > 0 /\ inflight = <<>>)
    => IngestedStore(store) = IngestedStore(soloSync(EmptyStore, 1))
\* two calls have returned whose last three bulk upserts alternated, and the
\* store holds the last publisher's version of an id two publishers supply
C28_Witness ==
  /\ clock = 2 /\ inflight = <<>>
  /\ Len(writeOrder) = 3
  /\ writeOrder[1] = writeOrder[3] /\ writeOrder[1] # writeOrder[2]
  /\ sources[1] \in Ids(Feed(sources[1], "Slot")) \cap Ids(Feed(sources[Len(sources)], "Slot"))
  /\ Lookup(store.Slot, sources[1]).publisherUrl = Val(sources[Len(sources)])

\* ------------------------------------------------ properties of the lookups
\* the answers the two paths give when the slot is not there, and the ones
\* their catch blocks give after an exception
NotFoundAnswer(via) ==
  IF via = "rest" THEN [status |-> 404, body |-> [message |-> "Slot not found"]]
  ELSE [success |-> FALSE, message |-> "Slot not found"]
ServerErrorAnswer(via) ==
  IF via = "rest"
  THEN [status |-> 500, body |-> [message |-> "Failed to get booking information"]]
  ELSE [success |-> FALSE, message |-> "Failed to get booking info"]

extensionsWith(slot, url) ==
  IF IsVal(slot.extension)
  THEN {i \in 1..Len(slot.extension.v) : G(slot.extension.v[i], "url") = Val(url)}
  ELSE {}
\* what a booking answer says under a property (Undefined: nothing)
Answered(property) ==
  IF reply.via = "rest" THEN G(reply.result.body, property)
  ELSE reply.result.data[property]
\* C14: a booking lookup for a stored slot with a booking-phone extension and
\* no booking-deep-link extension answers with bookingPhone equal to the
\* extension's value and with bookingLink undefined (absent).
C14_PhoneOnlyHasNoLink ==
  (/\ reply.kind = "booking"
   /\ reply.slotId \in Ids(store.Slot)
   /\ extensionsWith(Lookup(store.Slot, reply.slotId), BOOKING_PHONE) # {}
   /\ extensionsWith(Lookup(store.Slot, reply.slotId), BOOKING_DEEP_LINK) = {})
  => /\ \E i \in extensionsWith(Lookup(store.Slot, reply.slotId), BOOKING_PHONE) :
          Answered("bookingPhone")
            = G(Lookup(store.Slot, reply.slotId).extension.v[i], "valueString")
     /\ Answered("bookingLink") = Undefined


\* ------------------------------------------------ properties of the requests
\* a search was answered with a result, its practitioner filters were set and
\* left the non-empty set P of practitioners
Narrowed ==
  /\ reply.kind = "search"
  /\ "practitioners" \in DOMAIN reply.result
  /\ filtersApplied(reply.request)
  /\ reply.result.practitioners # <<>>
P == Ids(reply.result.practitioners)
\* the stored Schedules a Slot's schedule reference resolves to
SchedulesOf(slot) ==
  {j \in 1..Len(store.Schedule) :
     IsVal(slot.schedule) /\ store.Schedule[j].id = RefId(slot.schedule.v, "Schedule")}

\* C1: on either search path, when the practitioner filters leave a
\* non-empty set P, every returned Slot references a stored Schedule whose
\* actor list references a PractitionerRole of P.
C1_SlotsResolveIntoP ==
  Narrowed =>
    \A i \in 1..Len(reply.result.availableSlots) :
      \E j \in SchedulesOf(reply.result.availableSlots[i]) :
        practitionerIdsOf(store.Schedule[j]) \cap P # {}

\* C2 as stated: when the agent's practitioner filters leave a non-empty set
\* P, no returned Slot belongs to a Schedule whose actor list references a
\* PractitionerRole outside P.
C2_NoActorOutsideP ==
  Narrowed /\ reply.via = "agent" =>
    \A i \in 1..Len(reply.result.availableSlots) :
      \A j \in SchedulesOf(reply.result.availableSlots[i]) :
        practitionerIdsOf(store.Schedule[j]) \subseteq P
\* C2 as amended: when the agent's practitioner filters leave a non-empty
\* set P, no returned Slot belongs to a Schedule none of whose PractitionerRole
\* actors is in P; a Schedule that lists several is kept when one of them is.
C2_NoScheduleWithoutActorInP ==
  Narrowed /\ reply.via = "agent" =>
    ~ \E i \in 1..Len(reply.result.availableSlots) :
        \E j \in SchedulesOf(reply.result.availableSlots[i]) :
          practitionerIdsOf(store.Schedule[j]) \cap P = {}
\* the agent answered a narrowed search with a Slot of a Schedule that two
\* PractitionerRoles share, one of them in P and one not, while the store
\* holds another Slot of a Schedule without any actor in P that was left out
C2_Witness ==
  /\ Narrowed /\ reply.via = "agent"
  /\ \E i \in 1..Len(reply.result.availableSlots) :
       \E j \in SchedulesOf(reply.result.availableSlots[i]) :
         /\ practitionerIdsOf(store.Schedule[j]) \cap P # {}
         /\ practitionerIdsOf(store.Schedule[j]) \ P # {}
  /\ \E i \in 1..Len(store.Slot) :
       /\ store.Slot[i].id \notin Ids(reply.result.availableSlots)
       /\ \E j \in SchedulesOf(store.Slot[i]) :
            practitionerIdsOf(store.Schedule[j]) \cap P = {}

\* C3: on either search path, when the practitioner filters leave a
\* non-empty set P and no stored Schedule references a role of P, the
\* search returns no Slot, whatever Slots the store holds.
C3_NoScheduleNoSlots ==
  (Narrowed /\ \A j \in 1..Len(store.Schedule) :
                 practitionerIdsOf(store.Schedule[j]) \cap P = {})
    => reply.result.availableSlots = <<>>

\* C12: POST /api/search answers with a client error only when the body fails
\* validation, a body that fails validation does not reach
\* storage.searchProviders, and a body that passes validation is not answered
\* with a client error, whatever the store holds.
C12_ClientErrorIffInvalid ==
  reply.kind = "search" /\ reply.via = "rest" =>
    IF parseThrows(reply.request)
    THEN /\ "status" \in DOMAIN reply.result
         /\ reply.result.status = 400
         /\ ~reply.result.reached
    ELSE "status" \notin DOMAIN reply.result

\* the role has an insurance-accepted entry whose name (its type, or its name
\* property) contains one of the requested names, whatever the case
AcceptsOneOf(role, insurance) ==
  /\ IsVal(role.insuranceAccepted)
  /\ \E i \in 1..Len(role.insuranceAccepted.v) : \E k \in 1..Len(insurance) :
       \/ OptLowerIncludes(G(role.insuranceAccepted.v[i], "type"),
                           ToLowerCase(insurance[k]))
       \/ OptLowerIncludes(G(role.insuranceAccepted.v[i], "name"),
                           ToLowerCase(insurance[k]))
\* C15: on either search path, when the request carries a non-empty insurance
\* list, every returned PractitionerRole has an insurance-accepted entry whose
\* name contains one of the requested names, case-insensitively.
C15_ReturnedRolesAcceptInsurance ==
  (/\ reply.kind = "search"
   /\ "illTyped" \notin DOMAIN reply.request
   /\ Has(reply.request, "insurance")
   /\ "practitioners" \in DOMAIN reply.result)
  => \A i \in 1..Len(reply.result.practitioners) :
       AcceptsOneOf(reply.result.practitioners[i], reply.request.insurance)

\* the Slot's Schedule is not in the store, or none of the PractitionerRoles
\* the Schedule names as actors is
DanglingSlot(slot) ==
  \A j \in SchedulesOf(slot) :
    practitionerIdsOf(store.Schedule[j]) \cap Ids(store.PractitionerRole) = {}
\* the role names Locations and none of them is in the store
DanglingRole(role) ==
  /\ IsVal(role.location)
  /\ role.location.v # <<>>
  /\ \A i \in 1..Len(role.location.v) :
       RefId(role.location.v[i], "Location") \notin Ids(store.Location)
\* every stored Location has a name (one without a name is a malformed
\* resource, not a dangling reference)
LocationsNamed == \A i \in 1..Len(store.Location) : IsVal(store.Location[i].name)
\* C20: whatever references of the store dangle, in the middle of a sync too,
\* a search with a valid payload is answered with a result and not with an
\* error; when its practitioner filters leave a non-empty set of roles no
\* returned Slot has a missing Schedule or a Schedule whose PractitionerRole
\* actors are missing; when its location filter matches a Location no
\* returned role is one whose Locations are all missing.
C20_DanglingNeverMatches ==
  (reply.kind = "search" /\ ~parseThrows(reply.request))
  => /\ LocationsNamed => "practitioners" \in DOMAIN reply.result
     /\ Narrowed
          => \A i \in 1..Len(reply.result.availableSlots) :
               ~DanglingSlot(reply.result.availableSlots[i])
     /\ ("practitioners" \in DOMAIN reply.result
         /\ Has(reply.request, "location") /\ reply.result.locations # <<>>)
          => \A i \in 1..Len(reply.result.practitioners) :
               ~DanglingRole(reply.result.practitioners[i])

\* the request without its location filter
OtherFilters(request) == [f \in DOMAIN request \ {"location"} |-> request[f]]
\* the roles the other filters of the answered search leave
PassedOthers ==
  IF reply.via = "agent"
  THEN filteredPractitioners(store, OtherFilters(reply.request))
  ELSE searchProviders(store, parseFilters(OtherFilters(reply.request)), clock).practitioners
\* the role names a Location the search returned, or names none at all
NamesMatchingLocation(role) ==
  /\ IsVal(role.location)
  /\ \E i \in 1..Len(role.location.v) :
       RefId(role.location.v[i], "Location") \in Ids(reply.result.locations)
NamesNoLocation(role) == ~IsVal(role.location) \/ role.location.v = <<>>
\* C25: a search with a location filter that matches a Location returns
\* exactly the roles that pass its other filters and name a matching Location
\* or name no Location at all; one whose location filter matches no Location
\* returns exactly the roles that pass its other filters.
C25_LocationNarrowsRoles ==
  (/\ reply.kind = "search"
   /\ ~parseThrows(reply.request)
   /\ Has(reply.request, "location")
   /\ "practitioners" \in DOMAIN reply.result)
  => Ids(reply.result.practitioners) =
       IF reply.result.locations # <<>>
       THEN {PassedOthers[i].id :
               i \in {j \in 1..Len(PassedOthers) :
                        \/ NamesMatchingLocation(PassedOthers[j])
                        \/ NamesNoLocation(PassedOthers[j])}}
       ELSE Ids(PassedOthers)

\* C27: a search whose practitioner filters (specialty, location, insurance,
\* languages) were applied and left no PractitionerRole returns no Slot.
C27_NoRolesNoSlots ==
  (/\ reply.kind = "search"
   /\ ~parseThrows(reply.request)
   /\ "practitioners" \in DOMAIN reply.result
   /\ filtersApplied(reply.request)
   /\ reply.result.practitioners = <<>>)
  => reply.result.availableSlots = <<>>

\* the Slots an availability reply carries
SlotsReturned ==
  IF reply.via = "rest" THEN reply.result ELSE reply.result.data.slots
\* the Schedule the Slot refers to is stored and has an actor reference equal
\* to PractitionerRole/<providerId>
OnScheduleOf(slot, providerId) ==
  /\ IsVal(slot.schedule)
  /\ \E j \in 1..Len(store.Schedule) :
       /\ store.Schedule[j].id = RefId(slot.schedule.v, "Schedule")
       /\ IsVal(store.Schedule[j].actor)
       /\ \E a \in 1..Len(store.Schedule[j].actor.v) :
            G(store.Schedule[j].actor.v[a], "reference")
              = Ref("PractitionerRole", providerId)
\* C30: an availability request for provider p, on the REST path and on the
\* agent path, returns exactly the stored Slots whose start is inside the
\* requested range and whose Schedule has an actor reference equal to
\* PractitionerRole/p.
C30_AvailabilityFollowsActor ==
  reply.kind = "availability" =>
    SlotsReturned =
      SelectSeq(store.Slot, LAMBDA slot :
        /\ inWindow(slot, startOf(reply.range, clock), endOf(reply.range, clock))
        /\ OnScheduleOf(slot, reply.providerId))

\* C16: a search, availability, booking, manifest or NDJSON request, whether
\* it comes between cycles or in the middle of one, leaves every resource of
\* the store as it was. (The steps that end with a reply are the requests:
\* the steps of the sync are taken while no request has been answered.)
C16_RequestsLeaveStore == [][reply'.kind # "none" => store' = store]_vars
\* a booking lookup found its slot while a sync cycle was between two files
\* of a publisher
C16_Witness ==
  /\ reply.kind = "booking" /\ reply.slotId \in Ids(store.Slot)
  /\ pc = "file" /\ outIdx > 1

\* C9: every line of an NDJSON export parses to an object whose resourceType
\* is the export's type and that has none of the internal fields.
InternalFields == {"publisherUrl", "updatedAt", "appointmentType", "isVirtual"}
C9_ExportedLinesAreClean ==
  reply.kind = "ndjson" =>
    \A i \in 1..Len(reply.lines) :
      /\ "resourceType" \in DOMAIN reply.lines[i]
      /\ reply.lines[i].resourceType = reply.type
      /\ (DOMAIN reply.lines[i]) \cap InternalFields = {}

\* the state codes of the stored Locations, and their sorted list
StoredStates ==
  {AddressField(store.Location[i], "state").v :
     i \in {j \in 1..Len(store.Location) :
              IsVal(AddressField(store.Location[j], "state"))}}
Before(a, b) ==
  \E i \in 1..Len(b) :
    /\ \A k \in 1..(i - 1) : k <= Len(a) /\ a[k] = b[k]
    /\ (i > Len(a) \/ a[i] < b[i])
RECURSIVE Sorted(_)
Sorted(S) ==
  IF S = {} THEN <<>>
  ELSE LET least == CHOOSE x \in S : \A y \in S \ {x} : Before(x, y)
       IN <<least>> \o Sorted(S \ {least})
\* C10: the Slot entry of the manifest carries extension.state, the sorted
\* distinct state codes of the stored Locations, and carries no or an empty
\* extension exactly when no Location has a state.
C10_SlotEntryListsStates ==
  reply.kind = "manifest" =>
    \A k \in 1..Len(reply.manifest.output) :
      reply.manifest.output[k].type = "Slot" =>
        IF StoredStates = {}
        THEN \/ "extension" \notin DOMAIN reply.manifest.output[k]
             \/ reply.manifest.output[k].extension \in {<<>>, [state |-> <<>>]}
        ELSE /\ "extension" \in DOMAIN reply.manifest.output[k]
             /\ reply.manifest.output[k].extension = [state |-> Sorted(StoredStates)]

====
